---------------------------- MODULE Spec2Model ----------------------------
(***************************************************************************)
(* A model of the SKOOLACH text adventure: the command dispatcher          *)
(* (game/engine.py), the progressive parser (game/parser.py), the player   *)
(* and the rooms (game/player.py, game/room.py, game/world.py) and the     *)
(* turn-based combat system with the three-phase boss (game/combat.py).    *)
(*                                                                         *)
(* A command text is modelled by its sequence of lower-case tokens, i.e.   *)
(* by the value of text.lower().split(); the empty sequence is a blank     *)
(* line.  A random draw of the program (random.uniform, random.choice,     *)
(* random.random) is a nondeterministic choice.                            *)
(***************************************************************************)
EXTENDS Integers, Sequences, FiniteSets, TLC

(***************************************************************************)
(* Small helpers over sequences.                                           *)
(***************************************************************************)
Range(s) == {s[i] : i \in 1..Len(s)}

Min(a, b) == IF a < b THEN a ELSE b

Max(a, b) == IF a > b THEN a ELSE b

\* list.remove(x): removes the first occurrence of x
RemoveFirst(s, x) ==
    LET i == CHOOSE k \in 1..Len(s) : s[k] = x /\ \A j \in 1..(k - 1) : s[j] # x
    IN  SubSeq(s, 1, i - 1) \o SubSeq(s, i + 1, Len(s))

\* [w for w in s if keep(w)]
RECURSIVE FilterOut(_, _)
FilterOut(s, drop) ==
    IF s = <<>> THEN <<>>
    ELSE IF Head(s) \in drop THEN FilterOut(Tail(s), drop)
         ELSE <<Head(s)>> \o FilterOut(Tail(s), drop)

None == "None"

(***************************************************************************)
(* game/parser.py: the lexicon.                                            *)
(***************************************************************************)
\* Parser.verbs, in the insertion order of the dict
verbs ==
    << [canonical |-> "go",        synonyms |-> {"go", "move", "walk", "run", "travel", "head"}],
       [canonical |-> "take",      synonyms |-> {"take", "get", "grab", "pick", "acquire"}],
       [canonical |-> "drop",      synonyms |-> {"drop", "leave", "discard", "put"}],
       [canonical |-> "look",      synonyms |-> {"look", "examine", "inspect", "check", "view", "describe"}],
       [canonical |-> "inventory", synonyms |-> {"inventory", "inv", "i", "items"}],
       [canonical |-> "use",       synonyms |-> {"use", "activate", "apply"}],
       [canonical |-> "help",      synonyms |-> {"help", "?", "commands"}],
       [canonical |-> "quit",      synonyms |-> {"quit", "exit", "q"}],
       [canonical |-> "attack",    synonyms |-> {"attack", "fight", "hit", "strike", "kill"}],
       [canonical |-> "talk",      synonyms |-> {"talk", "speak", "chat", "say"}] >>

\* a direction table that knows the four cardinal abbreviations only
directions_cardinal_only ==
    [a \in {"n", "s", "e", "w"} |->
        CASE a = "n" -> "north"
          [] a = "s" -> "south"
          [] a = "e" -> "east"
          [] a = "w" -> "west"]

\* Parser.directions
directions ==
    [a \in {"n", "s", "e", "w", "ne", "nw", "se", "sw", "u", "d"} |->
        CASE a = "n"  -> "north"
          [] a = "s"  -> "south"
          [] a = "e"  -> "east"
          [] a = "w"  -> "west"
          [] a = "ne" -> "northeast"
          [] a = "nw" -> "northwest"
          [] a = "se" -> "southeast"
          [] a = "sw" -> "southwest"
          [] a = "u"  -> "up"
          [] a = "d"  -> "down"]

\* the literal list of full direction names in _parse_level_0 and _parse_level_1
full_directions ==
    {"north", "south", "east", "west", "up", "down",
     "northeast", "northwest", "southeast", "southwest"}

articles == {"a", "an", "the"}

\* a preposition list from which "to" is missing
prepositions_without_to == {"at", "with", "on", "in", "from"}

prepositions == {"at", "to", "with", "on", "in", "from"}

\* Parser._find_verb: the first canonical verb whose synonyms hold the word
find_verb(word) ==
    IF \E i \in 1..Len(verbs) : word \in verbs[i].synonyms
    THEN verbs[CHOOSE i \in 1..Len(verbs) :
                   /\ word \in verbs[i].synonyms
                   /\ \A j \in 1..(i - 1) : word \notin verbs[j].synonyms].canonical
    ELSE None

ParseResult(v, a) == [verb |-> v, args |-> a]

\* a level-0 grammar in which a lone verb word is understood only when the
\* verb takes no arguments
parse_level_0_lone_verb_fails(words) ==
    IF words = <<>> THEN ParseResult(None, <<>>)
    ELSE IF Len(words) = 1 /\ words[1] \in DOMAIN directions
         THEN ParseResult("go", <<directions[words[1]]>>)
    ELSE IF Len(words) = 1 /\ words[1] \in full_directions
         THEN ParseResult("go", <<words[1]>>)
    ELSE LET verb == find_verb(words[1]) IN
         IF verb = None THEN ParseResult(None, <<>>)
         ELSE IF verb \in {"inventory", "help", "quit", "look"} /\ Len(words) = 1
              THEN ParseResult(verb, <<>>)
         ELSE IF Len(words) = 2 THEN ParseResult(verb, <<words[2]>>)
         ELSE ParseResult(None, <<>>)

\* Parser._parse_level_0
parse_level_0(words) ==
    IF words = <<>> THEN ParseResult(None, <<>>)
    ELSE IF Len(words) = 1 /\ words[1] \in DOMAIN directions
         THEN ParseResult("go", <<directions[words[1]]>>)
    ELSE IF Len(words) = 1 /\ words[1] \in full_directions
         THEN ParseResult("go", <<words[1]>>)
    ELSE LET verb == find_verb(words[1]) IN
         IF verb = None THEN ParseResult(None, <<>>)
         ELSE IF verb \in {"inventory", "help", "quit", "look"} /\ Len(words) = 1
              THEN ParseResult(verb, <<>>)
         ELSE IF Len(words) = 2 THEN ParseResult(verb, <<words[2]>>)
         ELSE IF Len(words) > 2 THEN ParseResult(None, <<>>)
         ELSE ParseResult(verb, <<>>)

\* a level-1 grammar that infers go from a direction name at level 1 already
parse_level_1_infers_early(lvl, words) ==
    IF words = <<>> THEN ParseResult(None, <<>>)
    ELSE IF Len(words) = 1 /\ words[1] \in DOMAIN directions
         THEN ParseResult("go", <<directions[words[1]]>>)
    ELSE LET verb == find_verb(words[1]) IN
         IF verb = None
         THEN IF lvl >= 1 /\ words[1] \in full_directions
              THEN ParseResult("go", <<words[1]>>)
              ELSE ParseResult(None, <<>>)
         ELSE LET rest == Tail(words) IN
              IF verb \in {"inventory", "help", "quit", "look"} /\ rest = <<>>
              THEN ParseResult(verb, <<>>)
              ELSE ParseResult(verb, FilterOut(rest, articles \cup prepositions))

\* Parser._parse_level_1
parse_level_1(lvl, words) ==
    IF words = <<>> THEN ParseResult(None, <<>>)
    ELSE IF Len(words) = 1 /\ words[1] \in DOMAIN directions
         THEN ParseResult("go", <<directions[words[1]]>>)
    ELSE LET verb == find_verb(words[1]) IN
         IF verb = None
         THEN IF lvl >= 2 /\ words[1] \in full_directions
              THEN ParseResult("go", <<words[1]>>)
              ELSE ParseResult(None, <<>>)
         ELSE LET rest == Tail(words) IN
              IF verb \in {"inventory", "help", "quit"} /\ rest = <<>>
              THEN ParseResult(verb, <<>>)
              ELSE IF verb = "look" /\ rest = <<>>
              THEN ParseResult(verb, <<>>)
              ELSE ParseResult(verb,
                       IF lvl >= 1
                       THEN FilterOut(rest, articles \cup prepositions)
                       ELSE rest)

\* a dispatch that sends only level 1 itself to the level-1 grammar
parse_level_1_exactly(lvl, words) ==
    IF words = <<>> THEN ParseResult(None, <<>>)
    ELSE IF lvl = 0 THEN parse_level_0(words)
    ELSE IF lvl = 1 THEN parse_level_1(lvl, words)
    ELSE ParseResult(None, <<>>)

\* Parser.parse, for the parser level lvl
parse(lvl, words) ==
    IF words = <<>> THEN ParseResult(None, <<>>)
    ELSE IF lvl = 0 THEN parse_level_0(words)
    ELSE IF lvl >= 1 THEN parse_level_1(lvl, words)
    ELSE ParseResult(None, <<>>)

\* a suggestion that is the same hint at every level
suggest_command_one_hint(lvl) ==
    IF lvl < 0 THEN "Try using simple two-word commands"
    ELSE "I don't understand that command. Type HELP"

\* Parser.suggest_command
suggest_command(lvl) ==
    IF lvl = 0 THEN "Try using simple two-word commands"
    ELSE "I don't understand that command. Type HELP"

\* Parser.get_help_text: the band of the help text
get_help_text(lvl) ==
    IF lvl = 0 THEN "BASIC COMMANDS"
    ELSE IF lvl = 1 THEN "IMPROVED COMMANDS"
    ELSE "ADVANCED COMMANDS"

(***************************************************************************)
(* game/item.py, game/ai_components_data.py, game/world.py: the items.     *)
(* A name or a keyword is the token sequence of its lower-case text.       *)
(***************************************************************************)
ItemRec(n, t, ai, ct, kw) ==
    [name |-> n, takeable |-> t, is_ai_component |-> ai,
     component_type |-> ct, keywords |-> kw]

\* AIComponent.__init__: takeable, keywords = [name.lower(), component_type.lower()]
AIComponent(n, ct) == ItemRec(n, TRUE, TRUE, ct, {n, <<ct>>})

Items ==
    {"flashlight", "keyboard", "tokenizer", "embedding", "training_data", "codex",
     "attention", "neural_layer", "optimizer", "inference", "context",
     "fine_tuning", "debugger"}

ItemData ==
    [i \in Items |->
        CASE i = "flashlight" ->
               ItemRec(<<"led", "flashlight">>, TRUE, FALSE, None,
                       {<<"flashlight">>, <<"light">>, <<"led">>})
          [] i = "keyboard" ->
               ItemRec(<<"broken", "keyboard">>, FALSE, FALSE, None,
                       {<<"keyboard">>, <<"keys">>})
          [] i = "codex" ->
               ItemRec(<<"ancient", "codex">>, FALSE, FALSE, None,
                       {<<"book">>, <<"codex">>, <<"tome">>, <<"crawl">>})
          [] i = "debugger" ->
               ItemRec(<<"quantum", "debugger">>, TRUE, FALSE, None,
                       {<<"debugger">>, <<"quantum">>, <<"tool">>})
          [] i = "tokenizer"     -> AIComponent(<<"tokenizer", "core">>, "tokenizer")
          [] i = "embedding"     -> AIComponent(<<"embedding", "layer">>, "embedding")
          [] i = "attention"     -> AIComponent(<<"attention", "head">>, "attention")
          [] i = "neural_layer"  -> AIComponent(<<"neural", "network", "layer">>, "neural_layer")
          [] i = "training_data" -> AIComponent(<<"training", "data", "archive">>, "training_data")
          [] i = "optimizer"     -> AIComponent(<<"optimizer", "module">>, "optimizer")
          [] i = "inference"     -> AIComponent(<<"inference", "engine">>, "inference")
          [] i = "context"       -> AIComponent(<<"context", "window">>, "context")
          [] i = "fine_tuning"   -> AIComponent(<<"fine-tuning", "module">>, "fine_tuning")]

\* Python's `w in t` for two tokens, w a proper part of t, over the words of
\* the model's commands and of the items' names and keywords
proper_substrings ==
    {<<"key", "keyboard">>, <<"key", "keys">>, <<"light", "flashlight">>,
     <<"token", "tokenizer">>, <<"neural", "neural_layer">>,
     <<"layer", "neural_layer">>, <<"training", "training_data">>,
     <<"data", "training_data">>, <<"tuning", "fine_tuning">>,
     <<"tuning", "fine-tuning">>, <<"fine", "fine_tuning">>,
     <<"fine", "fine-tuning">>, <<"bug", "debugger">>}

\* `w in text` for a token w and a text of space-separated tokens
word_in_text(w, text) ==
    \E k \in 1..Len(text) : w = text[k] \/ <<w, text[k]>> \in proper_substrings

\* Item.matches, for the phrase ' '.join(args)
matches(i, phrase) ==
    \/ phrase \in ItemData[i].keywords
    \/ phrase = ItemData[i].name
    \/ /\ Len(phrase) > 1
       /\ \E k \in 1..Len(phrase) :
             /\ phrase[k] \notin {"the", "a", "an"}
             /\ \/ \E kw \in ItemData[i].keywords : word_in_text(phrase[k], kw)
                \/ word_in_text(phrase[k], ItemData[i].name)

\* Room.get_item / Player.get_item: the first item of the list that matches
get_item(list, phrase) ==
    IF \E k \in 1..Len(list) : matches(list[k], phrase)
    THEN list[CHOOSE k \in 1..Len(list) :
                  /\ matches(list[k], phrase)
                  /\ \A j \in 1..(k - 1) : ~matches(list[j], phrase)]
    ELSE None

(***************************************************************************)
(* game/world.py: the room graph built by create_world.                    *)
(***************************************************************************)
Rooms ==
    {"crash_site", "memory_corridor", "tokenizer_chamber", "embedding_space",
     "dark_archives", "attention_nexus", "neural_depths", "optimization_chamber",
     "inference_room", "context_chamber", "finetuning_lab", "virus_entrance",
     "virus_lair", "hall_of_triumph"}

\* Room.exits of every room: <<room, direction, target>>
exits ==
    {<<"crash_site", "north", "memory_corridor">>,
     <<"memory_corridor", "south", "crash_site">>,
     <<"memory_corridor", "north", "tokenizer_chamber">>,
     <<"tokenizer_chamber", "south", "memory_corridor">>,
     <<"memory_corridor", "east", "embedding_space">>,
     <<"embedding_space", "west", "memory_corridor">>,
     <<"memory_corridor", "west", "dark_archives">>,
     <<"dark_archives", "east", "memory_corridor">>,
     <<"memory_corridor", "northeast", "attention_nexus">>,
     <<"attention_nexus", "southwest", "memory_corridor">>,
     <<"memory_corridor", "southeast", "neural_depths">>,
     <<"neural_depths", "northwest", "memory_corridor">>,
     <<"neural_depths", "south", "optimization_chamber">>,
     <<"optimization_chamber", "north", "neural_depths">>,
     <<"attention_nexus", "north", "inference_room">>,
     <<"inference_room", "south", "attention_nexus">>,
     <<"inference_room", "east", "context_chamber">>,
     <<"context_chamber", "west", "inference_room">>,
     <<"optimization_chamber", "east", "finetuning_lab">>,
     <<"finetuning_lab", "west", "optimization_chamber">>,
     <<"dark_archives", "northwest", "virus_entrance">>,
     <<"virus_entrance", "southeast", "dark_archives">>,
     <<"virus_entrance", "northwest", "virus_lair">>,
     <<"virus_lair", "southeast", "virus_entrance">>,
     <<"virus_lair", "north", "hall_of_triumph">>}

\* Room.locked_exits after create_world: <<room, direction>> -> required item name
initial_locked_exits ==
    {<<"virus_entrance", "northwest", <<"quantum", "debugger">> >>}

\* Room.items after create_world
initial_room_items ==
    [r \in Rooms |->
        CASE r = "crash_site"           -> <<"flashlight", "keyboard">>
          [] r = "tokenizer_chamber"    -> <<"tokenizer">>
          [] r = "embedding_space"      -> <<"embedding">>
          [] r = "dark_archives"        -> <<"training_data", "codex">>
          [] r = "attention_nexus"      -> <<"attention">>
          [] r = "neural_depths"        -> <<"neural_layer">>
          [] r = "optimization_chamber" -> <<"optimizer">>
          [] r = "inference_room"       -> <<"inference">>
          [] r = "context_chamber"      -> <<"context">>
          [] r = "finetuning_lab"       -> <<"fine_tuning", "debugger">>
          [] OTHER                      -> <<>>]

\* a test that also takes the gateway to the lair for a room of the virus
name_has_virus_at_gateway(r) == r \in {"virus_lair", "virus_entrance"}

\* "virus" in room.name.lower(): true of "Virus Lair" alone
name_has_virus(r) == r = "virus_lair"

\* Room.get_exit
get_exit(r, direction) ==
    IF \E e \in exits : e[1] = r /\ e[2] = direction
    THEN (CHOOSE e \in exits : e[1] = r /\ e[2] = direction)[3]
    ELSE None

(***************************************************************************)
(* game/combat.py: actions, the boss, the combat system.                   *)
(***************************************************************************)
\* CombatAction.__init__
CombatAction(n, dmg, hl) == [name |-> n, damage |-> dmg, heal |-> hl]

\* SkoolachVirus.__init__: max_health
BossMaxHealth == 150

\* Player.__init__: health; the cap of player_attack's heal
PlayerMaxHealth == 100

\* SkoolachVirus.__init__: self.actions
virus_actions ==
    << CombatAction("Memory Corruption", 15, 0),
       CombatAction("Parser Degradation", 25, 0),
       CombatAction("Data Leak", 10, 0),
       CombatAction("Stack Overflow", 30, 0),
       CombatAction("Regenerate", 0, 20) >>

\* CombatSystem._generate_player_actions: the component_actions dict
component_action_types ==
    {"tokenizer", "embedding", "attention", "neural_layer", "training_data",
     "optimizer", "inference", "context"}

component_actions ==
    [t \in component_action_types |->
        CASE t = "tokenizer"     -> CombatAction("Token Blast", 20, 0)
          [] t = "embedding"     -> CombatAction("Semantic Strike", 25, 0)
          [] t = "attention"     -> CombatAction("Focused Attention", 30, 0)
          [] t = "neural_layer"  -> CombatAction("Neural Surge", 35, 0)
          [] t = "training_data" -> CombatAction("Knowledge Beam", 28, 0)
          [] t = "optimizer"     -> CombatAction("Gradient Descent", 32, 0)
          [] t = "inference"     -> CombatAction("Prediction Strike", 40, 0)
          [] t = "context"       -> CombatAction("Contextual Barrage", 38, 0)]

\* the loop of _generate_player_actions over player.ai_components_collected
RECURSIVE ComponentActions(_)
ComponentActions(components) ==
    IF components = <<>> THEN <<>>
    ELSE LET comp_type == ItemData[Head(components)].component_type IN
         (IF comp_type \in component_action_types
          THEN <<component_actions[comp_type]>>
          ELSE <<>>) \o ComponentActions(Tail(components))

\* generate_player_actions with the healing action added before the loop
generate_player_actions_heal_first(components) ==
    <<CombatAction("Debug Attack", 10, 0)>>
    \o (IF \E k \in 1..Len(components) :
              ItemData[components[k]].component_type = "optimizer"
        THEN <<CombatAction("Self-Optimize", 0, 30)>>
        ELSE <<>>)
    \o ComponentActions(components)

\* CombatSystem._generate_player_actions
generate_player_actions(components) ==
    <<CombatAction("Debug Attack", 10, 0)>>
    \o ComponentActions(components)
    \o (IF \E k \in 1..Len(components) :
              ItemData[components[k]].component_type = "optimizer"
        THEN <<CombatAction("Self-Optimize", 0, 30)>>
        ELSE <<>>)

\* draws of a variance of 20 percent
RollPercents_wide == {80, 100, 120}

\* The values of 100 * random.uniform(0.9, 1.1) the model draws
RollPercents == {90, 100, 110}

\* actual_damage with the percentage divided before it is multiplied
actual_damage_whole_percent(damage, roll) == damage * (roll \div 100)

\* int(action.damage * random.uniform(0.9, 1.1)) for the draw roll / 100
actual_damage(damage, roll) == (damage * roll) \div 100

\* Enemy.take_damage: the enemy's health after `amount` of damage
take_damage(health, amount) == Max(0, health - amount)

\* heal_player without the min
heal_player_unclamped(health, heal) == health + heal

\* player_attack's heal: min(100, self.player.health + action.heal)
heal_player(health, heal) == Min(PlayerMaxHealth, health + heal)

\* enemy_attack's damage: max(0, self.player.health - actual_damage)
damage_player(health, amount) == Max(0, health - amount)

\* heal_enemy without the min
heal_enemy_unclamped(health, heal) == health + heal

\* enemy_attack's heal: min(self.enemy.max_health, self.enemy.health + action.heal)
heal_enemy(health, heal) == Min(BossMaxHealth, health + heal)

\* is_alive with >= for >
is_alive_at_zero(enemy_health) == enemy_health >= 0

\* Enemy.is_alive
is_alive(enemy_health) == enemy_health > 0

\* is_combat_over with its two tests in the other order
is_combat_over_player_first(player_health, enemy_health) ==
    IF player_health <= 0 THEN [over |-> TRUE, winner |-> "enemy"]
    ELSE IF ~is_alive(enemy_health) THEN [over |-> TRUE, winner |-> "player"]
    ELSE [over |-> FALSE, winner |-> None]

\* CombatSystem.is_combat_over
is_combat_over(player_health, enemy_health) ==
    IF ~is_alive(enemy_health) THEN [over |-> TRUE, winner |-> "player"]
    ELSE IF player_health <= 0 THEN [over |-> TRUE, winner |-> "enemy"]
    ELSE [over |-> FALSE, winner |-> None]

\* next_phase with two independent tests: the second sees the phase the first
\* has just set
next_phase_cascading(phase, enemy_health) ==
    LET first == IF 2 * enemy_health <= BossMaxHealth /\ phase = 1 THEN 2 ELSE phase
    IN  IF 4 * enemy_health <= BossMaxHealth /\ first = 2 THEN 3 ELSE first

\* next_phase with the health fraction computed by integer division
next_phase_int_ratio(phase, enemy_health) ==
    IF 2 * (enemy_health \div BossMaxHealth) <= 1 /\ phase = 1 THEN 2
    ELSE IF 4 * (enemy_health \div BossMaxHealth) <= 1 /\ phase = 2 THEN 3
    ELSE phase

\* next_phase computed from the health alone, whatever the phase was
next_phase_from_health(phase, enemy_health) ==
    IF 4 * enemy_health <= BossMaxHealth THEN 3
    ELSE IF 2 * enemy_health <= BossMaxHealth THEN 2
    ELSE 1

\* next_phase with < for <=
next_phase_strict(phase, enemy_health) ==
    IF 2 * enemy_health < BossMaxHealth /\ phase = 1 THEN 2
    ELSE IF 4 * enemy_health < BossMaxHealth /\ phase = 2 THEN 3
    ELSE phase

\* SkoolachVirus.choose_action, the phase transitions:
\* health_percent <= 0.5 is 2 * health <= max_health, <= 0.25 is 4 * health <= max_health
next_phase(phase, enemy_health) ==
    IF 2 * enemy_health <= BossMaxHealth /\ phase = 1 THEN 2
    ELSE IF 4 * enemy_health <= BossMaxHealth /\ phase = 2 THEN 3
    ELSE phase

\* a choice whose last phase may also regenerate
phase_choices_final_heals(phase, enemy_health) ==
    IF phase = 3
    THEN {a \in Range(virus_actions) : a.damage >= 20 \/ a.heal > 0}
    ELSE IF phase = 2
    THEN Range(virus_actions)
    ELSE {a \in Range(virus_actions) : a.damage > 0 /\ a.damage < 30}

\* a choice that ignores the phase
phase_choices_any(phase, enemy_health) ==
    IF phase > 3 THEN {} ELSE Range(virus_actions)

\* SkoolachVirus.choose_action, the choice: the actions the boss may return in
\* phase `phase` (the phase after the transitions) at health enemy_health;
\* health_percent < 0.4 is 10 * health < 4 * max_health
phase_choices(phase, enemy_health) ==
    IF phase = 3
    THEN {a \in Range(virus_actions) : a.damage >= 20}
    ELSE IF phase = 2
    THEN (IF 10 * enemy_health < 4 * BossMaxHealth
          THEN {a \in Range(virus_actions) : a.name = "Regenerate"}
          ELSE {})
         \cup Range(virus_actions)
    ELSE {a \in Range(virus_actions) : a.damage > 0 /\ a.damage < 30}

\* SkoolachVirus.get_phase_message
get_phase_message(phase) ==
    IF phase = 1 THEN "SKOOLACH writhes menacingly..."
    ELSE IF phase = 2 THEN "SKOOLACH'S CODE DESTABILIZES"
    ELSE "CRITICAL: SKOOLACH ENTERS FINAL FORM"

(***************************************************************************)
(* The state.                                                              *)
(*   GameEngine:   running, game_won, in_combat, combat                    *)
(*   Parser:       level                                                   *)
(*   Player:       current_room, inventory, ai_components_collected, health*)
(*   Room:         room_items (Room.items), locked_exits                   *)
(*   CombatSystem: enemy_health and phase (the SkoolachVirus it owns),     *)
(*                 turn, player_actions; created_with records the          *)
(*                 player's ai_components_collected at its construction    *)
(*   response:     what the last call returned, by its kind (and, for the  *)
(*                 attack narratives, the action and the amounts printed)  *)
(*   calls:        the CombatSystem methods the last command called, in    *)
(*                 order                                                   *)
(*   steps:        the number of calls made on a test fixture (SpecCombat) *)
(*   choice_from:  the phase and the health the boss had when choose_action*)
(*                 was last called on it                                   *)
(* Room.visited and Room.is_dark only select the text of a description and *)
(* are left out.                                                           *)
(***************************************************************************)
VARIABLES running, game_won, in_combat, combat, level,
          current_room, inventory, ai_components_collected, health,
          room_items, locked_exits,
          enemy_health, phase, turn, player_actions, created_with,
          response, calls, steps, choice_from

engine_vars == <<running, game_won, in_combat, combat>>

player_vars == <<current_room, inventory, ai_components_collected, health>>

room_vars == <<room_items, locked_exits>>

combat_vars == <<enemy_health, phase, turn, player_actions, created_with>>

\* everything but the parser level and the two observations
game_vars == <<engine_vars, player_vars, room_vars, combat_vars>>

vars == <<game_vars, level, response, calls, steps, choice_from>>

NoAmount == 0 - 1

\* a returned text of kind k
Resp(k) ==
    [kind |-> k, action |-> None, amount |-> NoAmount, healed |-> NoAmount,
     over |-> FALSE, winner |-> None]

\* the narrative of player_attack / enemy_attack: the action used, the damage
\* printed (NoAmount: no damage line) and the health restored (NoAmount: none)
Narrative(k, a, dmg, hl) ==
    [kind |-> k, action |-> a, amount |-> dmg, healed |-> hl,
     over |-> FALSE, winner |-> None]

\* the tuple is_combat_over returns
Verdict(r) ==
    [kind |-> "is_combat_over", action |-> None, amount |-> NoAmount,
     healed |-> NoAmount, over |-> r.over, winner |-> r.winner]

\* no choose_action call yet
NoChoice == [phase |-> 0, enemy_health |-> 0]

\* Player.__init__: max_inventory
max_inventory == 10

\* engine.py _initiate_combat: the components needed to start the encounter
MinComponents == 3

(***************************************************************************)
(* The initial state: GameEngine(), create_world(), engine.setup(...).     *)
(***************************************************************************)
Init ==
    /\ running = TRUE
    /\ game_won = FALSE
    /\ in_combat = FALSE
    /\ combat = None
    /\ level = 0
    /\ current_room = "crash_site"
    /\ inventory = <<>>
    /\ ai_components_collected = <<>>
    /\ health = PlayerMaxHealth
    /\ room_items = initial_room_items
    /\ locked_exits = initial_locked_exits
    /\ enemy_health = 0
    /\ phase = 1
    /\ turn = 0
    /\ player_actions = <<>>
    /\ created_with = <<>>
    /\ response = Resp("intro")
    /\ calls = <<>>
    /\ steps = 0
    /\ choice_from = NoChoice

\* get_parser_level that never reports less than the level already set
get_parser_level_ratchet == Max(level, Len(ai_components_collected))

\* Player.get_parser_level
get_parser_level == Len(ai_components_collected)

\* a take_item that refuses only once the inventory is over its limit
take_item_result_late_cap(i) ==
    IF Len(inventory) > max_inventory THEN "Your inventory is full."
    ELSE IF ~ItemData[i].takeable THEN "You can't take"
    ELSE "You take"

\* Player.take_item: the outcome for item i
take_item_result(i) ==
    IF Len(inventory) >= max_inventory THEN "Your inventory is full."
    ELSE IF ~ItemData[i].takeable THEN "You can't take"
    ELSE "You take"

\* a can_go that never looks at the locks
can_go_ignores_locks(direction) ==
    IF get_exit(current_room, direction) = None THEN "You can't go that way."
    ELSE "OK"

\* Room.can_go: the outcome for a direction from the current room
can_go(direction) ==
    IF get_exit(current_room, direction) = None THEN "You can't go that way."
    ELSE IF \E l \in locked_exits : l[1] = current_room /\ l[2] = direction
    THEN LET l == CHOOSE x \in locked_exits : x[1] = current_room /\ x[2] = direction IN
         IF ~\E k \in 1..Len(inventory) : ItemData[inventory[k]].name = l[3]
         THEN "The way is blocked."
         ELSE "OK"
    ELSE "OK"

(***************************************************************************)
(* game/engine.py: process_command outside an encounter.  Every action is  *)
(* one call of process_command with the command text cmd; the main loops   *)
(* (main_text.py, main.py) call it while engine.is_running().              *)
(***************************************************************************)
\* process_command: a blank line returns "" before anything else
Blank(cmd) ==
    /\ running
    /\ cmd = <<>>
    /\ response' = Resp("")
    /\ calls' = <<>>
    /\ UNCHANGED <<game_vars, level, steps, choice_from>>

\* process_command: the branch taken while an encounter is active
InCombat == in_combat /\ combat # None

\* process_command, lines 51-56: set_level(get_parser_level()), then parse
Parsed(cmd) == parse(get_parser_level, cmd)

\* process_command dispatches the parsed verb v
Dispatch(cmd, v) ==
    /\ running
    /\ cmd # <<>>
    /\ ~InCombat
    /\ Parsed(cmd).verb = v
    /\ level' = get_parser_level
    /\ calls' = <<>>
    /\ UNCHANGED <<steps, choice_from>>

\* process_command: verb is None
ParseFailure(cmd) ==
    /\ Dispatch(cmd, None)
    /\ response' = Resp(suggest_command(get_parser_level))
    /\ UNCHANGED game_vars

\* _handle_quit
handle_quit(cmd) ==
    /\ Dispatch(cmd, "quit")
    /\ running' = FALSE
    /\ response' = Resp("Thanks for playing SKOOLACH!")
    /\ UNCHANGED <<game_won, in_combat, combat, player_vars, room_vars, combat_vars>>

\* process_command: verb == 'help'
handle_help(cmd) ==
    /\ Dispatch(cmd, "help")
    /\ response' = Resp(get_help_text(get_parser_level))
    /\ UNCHANGED game_vars

\* _handle_inventory
handle_inventory(cmd) ==
    /\ Dispatch(cmd, "inventory")
    /\ response' = Resp(IF inventory = <<>> THEN "You are carrying nothing."
                        ELSE "You are carrying:")
    /\ UNCHANGED game_vars

\* _handle_look
handle_look(cmd) ==
    /\ Dispatch(cmd, "look")
    /\ LET args == Parsed(cmd).args IN
       response' =
          IF args = <<>> THEN Resp("room description")
          ELSE IF get_item(inventory, args) # None THEN Resp("item description")
          ELSE IF get_item(room_items[current_room], args) # None
               THEN Resp("item description")
          ELSE Resp("You don't see any")
    /\ UNCHANGED game_vars

\* a _handle_go whose can_go checks the lock and leaves it in place
handle_go_keeps_lock(cmd) ==
    /\ Dispatch(cmd, "go")
    /\ LET args == Parsed(cmd).args IN
       IF args = <<>>
       THEN /\ response' = Resp("Go where? Specify a direction.")
            /\ UNCHANGED <<current_room, locked_exits>>
       ELSE LET direction == args[1] IN
            IF can_go(direction) # "OK"
            THEN /\ response' = Resp(can_go(direction))
                 /\ UNCHANGED <<current_room, locked_exits>>
            ELSE /\ UNCHANGED locked_exits
                 /\ current_room' = get_exit(current_room, direction)
                 /\ response' = Resp("room description")
    /\ UNCHANGED <<engine_vars, inventory, ai_components_collected, health,
                   room_items, combat_vars>>

\* _handle_go, with Room.can_go and Player.move_to
handle_go(cmd) ==
    /\ Dispatch(cmd, "go")
    /\ LET args == Parsed(cmd).args IN
       IF args = <<>>
       THEN /\ response' = Resp("Go where? Specify a direction.")
            /\ UNCHANGED <<current_room, locked_exits>>
       ELSE LET direction == args[1] IN
            IF can_go(direction) # "OK"
            THEN /\ response' = Resp(can_go(direction))
                 /\ UNCHANGED <<current_room, locked_exits>>
            ELSE /\ locked_exits' =
                       {l \in locked_exits : ~(l[1] = current_room /\ l[2] = direction)}
                 /\ current_room' = get_exit(current_room, direction)
                 /\ response' = Resp("room description")
    /\ UNCHANGED <<engine_vars, inventory, ai_components_collected, health,
                   room_items, combat_vars>>

\* _apply_component_upgrade: the text for the level reached
upgrade_message(lvl) ==
    IF lvl \in 1..5 THEN "AI COMPONENT ACQUIRED, SYSTEM UPDATE"
    ELSE "AI COMPONENT ACQUIRED"

\* _handle_take, with Player.take_item and Room.remove_item
handle_take(cmd) ==
    /\ Dispatch(cmd, "take")
    /\ LET args == Parsed(cmd).args
           item == get_item(room_items[current_room], args)
       IN
       IF args = <<>>
       THEN /\ response' = Resp("Take what?")
            /\ UNCHANGED <<inventory, ai_components_collected, room_items>>
       ELSE IF item = None
       THEN /\ response' = Resp("You don't see any")
            /\ UNCHANGED <<inventory, ai_components_collected, room_items>>
       ELSE IF take_item_result(item) # "You take"
       THEN /\ response' = Resp(take_item_result(item))
            /\ UNCHANGED <<inventory, ai_components_collected, room_items>>
       ELSE /\ inventory' = Append(inventory, item)
            /\ ai_components_collected' =
                  IF ItemData[item].is_ai_component
                  THEN Append(ai_components_collected, item)
                  ELSE ai_components_collected
            /\ room_items' =
                  [room_items EXCEPT ![current_room] = RemoveFirst(@, item)]
            /\ response' =
                  IF ItemData[item].is_ai_component
                  THEN Resp(upgrade_message(Len(ai_components_collected) + 1))
                  ELSE Resp("You take")
    /\ UNCHANGED <<engine_vars, current_room, health, locked_exits, combat_vars>>

\* a _handle_drop that never puts the item into the room
handle_drop_loses_item(cmd) ==
    /\ Dispatch(cmd, "drop")
    /\ LET args == Parsed(cmd).args
           item == get_item(inventory, args)
       IN
       IF args = <<>>
       THEN /\ response' = Resp("Drop what?")
            /\ UNCHANGED <<inventory, ai_components_collected, room_items>>
       ELSE IF item = None
       THEN /\ response' = Resp("You don't have any")
            /\ UNCHANGED <<inventory, ai_components_collected, room_items>>
       ELSE /\ inventory' = RemoveFirst(inventory, item)
            /\ ai_components_collected' =
                  IF ItemData[item].is_ai_component
                     /\ item \in Range(ai_components_collected)
                  THEN RemoveFirst(ai_components_collected, item)
                  ELSE ai_components_collected
            /\ UNCHANGED room_items
            /\ response' = Resp("You drop")
    /\ UNCHANGED <<engine_vars, current_room, health, locked_exits, combat_vars>>

\* _handle_drop, with Player.drop_item and Room.add_item
handle_drop(cmd) ==
    /\ Dispatch(cmd, "drop")
    /\ LET args == Parsed(cmd).args
           item == get_item(inventory, args)
       IN
       IF args = <<>>
       THEN /\ response' = Resp("Drop what?")
            /\ UNCHANGED <<inventory, ai_components_collected, room_items>>
       ELSE IF item = None
       THEN /\ response' = Resp("You don't have any")
            /\ UNCHANGED <<inventory, ai_components_collected, room_items>>
       ELSE /\ inventory' = RemoveFirst(inventory, item)
            /\ ai_components_collected' =
                  IF ItemData[item].is_ai_component
                     /\ item \in Range(ai_components_collected)
                  THEN RemoveFirst(ai_components_collected, item)
                  ELSE ai_components_collected
            /\ room_items' = [room_items EXCEPT ![current_room] = Append(@, item)]
            /\ response' = Resp("You drop")
    /\ UNCHANGED <<engine_vars, current_room, health, locked_exits, combat_vars>>

\* _handle_use
handle_use(cmd) ==
    /\ Dispatch(cmd, "use")
    /\ LET args == Parsed(cmd).args IN
       response' =
          IF args = <<>> THEN Resp("Use what?")
          ELSE IF get_item(inventory, <<args[1]>>) = None
               THEN Resp("You don't have any")
          ELSE IF Len(args) >= 2 /\ get_item(room_items[current_room], <<args[2]>>) = None
               THEN Resp("You don't see any")
          ELSE Resp("You can't use that way.")
    /\ UNCHANGED game_vars

\* _handle_talk
handle_talk(cmd) ==
    /\ Dispatch(cmd, "talk")
    /\ response' = IF Parsed(cmd).args = <<>> THEN Resp("Talk to whom?")
                   ELSE Resp("There's no response.")
    /\ UNCHANGED game_vars

\* can_initiate with the threshold one lower
can_initiate_with_two == Len(ai_components_collected) >= MinComponents - 1

\* _initiate_combat: the encounter is started iff the player holds enough components
can_initiate == Len(ai_components_collected) >= MinComponents

\* _initiate_combat: SkoolachVirus(), CombatSystem(self.player, virus)
initiate_combat ==
    IF ~can_initiate
    THEN /\ response' = Resp("you're too weak!")
         /\ UNCHANGED <<in_combat, combat, combat_vars>>
    ELSE /\ combat' = "CombatSystem"
         /\ in_combat' = TRUE
         /\ enemy_health' = BossMaxHealth
         /\ phase' = 1
         /\ turn' = 0
         /\ player_actions' = generate_player_actions(ai_components_collected)
         /\ created_with' = ai_components_collected
         /\ response' = Resp("COMBAT INITIATED!")

\* _handle_attack
handle_attack(cmd) ==
    /\ Dispatch(cmd, "attack")
    /\ LET args == Parsed(cmd).args IN
       IF args = <<>>
       THEN /\ response' = Resp("Attack what?")
            /\ UNCHANGED <<in_combat, combat, combat_vars>>
       ELSE IF name_has_virus(current_room) \/ word_in_text("skoolach", args)
       THEN initiate_combat
       ELSE /\ response' = Resp("There's nothing to attack here.")
            /\ UNCHANGED <<in_combat, combat, combat_vars>>
    /\ UNCHANGED <<running, game_won, player_vars, room_vars>>

(***************************************************************************)
(* game/combat.py: the two attacks as functions of the health of the two   *)
(* actors.  roll is the draw of random.uniform, in percent.                *)
(***************************************************************************)
\* CombatSystem.player_attack(action): the healths after it and what it prints
player_attack(player_health, boss_health, action, roll) ==
    LET dmg == actual_damage(action.damage, roll) IN
    [health       |-> IF action.heal > 0 THEN heal_player(player_health, action.heal)
                      ELSE player_health,
     enemy_health |-> IF action.damage > 0 THEN take_damage(boss_health, dmg)
                      ELSE boss_health,
     amount       |-> IF action.damage > 0 THEN dmg ELSE NoAmount,
     healed       |-> IF action.heal > 0
                      THEN heal_player(player_health, action.heal) - player_health
                      ELSE NoAmount]

\* CombatSystem.enemy_attack, after choose_action has returned `action`
enemy_attack(player_health, boss_health, action, roll) ==
    LET dmg == actual_damage(action.damage, roll) IN
    [health       |-> IF action.damage > 0 THEN damage_player(player_health, dmg)
                      ELSE player_health,
     enemy_health |-> IF action.heal > 0 THEN heal_enemy(boss_health, action.heal)
                      ELSE boss_health,
     amount       |-> IF action.damage > 0 THEN dmg ELSE NoAmount,
     healed       |-> IF action.heal > 0
                      THEN heal_enemy(boss_health, action.heal) - boss_health
                      ELSE NoAmount]

(***************************************************************************)
(* game/engine.py: process_command while an encounter is active.           *)
(***************************************************************************)
\* int(command) for the numeric texts of the model's commands; any other
\* text of the model raises ValueError
int_value ==
    [t \in {"-1", "0", "1", "2", "3", "4", "5", "6", "7", "8", "9"} |->
        CASE t = "-1" -> 0 - 1
          [] t = "0" -> 0 [] t = "1" -> 1 [] t = "2" -> 2 [] t = "3" -> 3
          [] t = "4" -> 4 [] t = "5" -> 5 [] t = "6" -> 6 [] t = "7" -> 7
          [] t = "8" -> 8 [] t = "9" -> 9]

is_int(cmd) == Len(cmd) = 1 /\ cmd[1] \in DOMAIN int_value

\* _handle_combat_command: the text is the help token
is_combat_help(cmd) == cmd \in {<<"help">>, <<"?">>}

\* _handle_combat_command: the text is a 1-based index into the actions
is_valid_selection(cmd) ==
    /\ ~is_combat_help(cmd)
    /\ is_int(cmd)
    /\ 1 <= int_value[cmd[1]]
    /\ int_value[cmd[1]] <= Len(player_actions)

\* process_command hands the text to _handle_combat_command
CombatInput(cmd) ==
    /\ running
    /\ cmd # <<>>
    /\ InCombat

\* _handle_combat_command: 'help' or '?'
CombatHelp(cmd) ==
    /\ CombatInput(cmd)
    /\ is_combat_help(cmd)
    /\ response' = Resp("Available actions:")
    /\ calls' = <<"get_available_actions">>
    /\ UNCHANGED <<game_vars, level, steps, choice_from>>

\* CombatInvalid where the rejected input costs the player the turn: the
\* boss's Data Leak lands
CombatInvalid_costs_turn(cmd) ==
    /\ CombatInput(cmd)
    /\ ~is_combat_help(cmd)
    /\ ~is_valid_selection(cmd)
    /\ response' = IF is_int(cmd) THEN Resp("Invalid action number.")
                   ELSE Resp("Enter the number of the action")
    /\ calls' = <<"enemy_attack">>
    /\ health' = damage_player(health, 10)
    /\ UNCHANGED <<engine_vars, current_room, inventory, ai_components_collected,
                   room_vars, combat_vars, level, steps, choice_from>>

\* _handle_combat_command: a number out of range, or no number at all
CombatInvalid(cmd) ==
    /\ CombatInput(cmd)
    /\ ~is_combat_help(cmd)
    /\ ~is_valid_selection(cmd)
    /\ response' = IF is_int(cmd) THEN Resp("Invalid action number.")
                   ELSE Resp("Enter the number of the action")
    /\ calls' = IF is_int(cmd) THEN <<"get_available_actions">> ELSE <<>>
    /\ UNCHANGED <<game_vars, level, steps, choice_from>>

\* _execute_combat_turn(action): the encounter ends in victory
victory ==
    /\ in_combat' = FALSE
    /\ game_won' = TRUE
    /\ response' = Resp("VICTORY!")
    /\ UNCHANGED running

\* _execute_combat_turn(action): the encounter ends in defeat
defeat ==
    /\ in_combat' = FALSE
    /\ running' = FALSE
    /\ response' = Resp("SYSTEM FAILURE")
    /\ UNCHANGED game_won

\* the calls _execute_combat_turn makes on the CombatSystem when the boss
\* acts, and when the first check ends the round
FullRound == <<"player_attack", "is_combat_over", "enemy_attack", "is_combat_over">>
ShortRound == <<"player_attack", "is_combat_over">>

\* _execute_combat_turn(action): roll_p and roll_e are the two draws of
\* random.uniform, enemy_action the action choose_action returns
execute_combat_turn(action, roll_p, roll_e) ==
    LET p     == player_attack(health, enemy_health, action, roll_p)
        over1 == is_combat_over(p.health, p.enemy_health)
        ph    == next_phase(phase, p.enemy_health)
    IN
    IF over1.over
    THEN /\ calls' = ShortRound
         /\ health' = p.health
         /\ enemy_health' = p.enemy_health
         /\ phase' = phase
         /\ UNCHANGED choice_from
         /\ IF over1.winner = "player" THEN victory ELSE defeat
    ELSE /\ calls' = FullRound
         /\ phase' = ph
         /\ choice_from' = [phase |-> phase, enemy_health |-> p.enemy_health]
         /\ \E enemy_action \in phase_choices(ph, p.enemy_health) :
               LET e     == enemy_attack(p.health, p.enemy_health, enemy_action, roll_e)
                   over2 == is_combat_over(e.health, e.enemy_health)
               IN
               /\ health' = e.health
               /\ enemy_health' = e.enemy_health
               /\ IF over2.over /\ over2.winner = "enemy"
                  THEN defeat
                  ELSE /\ response' = Resp("Choose your next action:")
                       /\ UNCHANGED <<running, game_won, in_combat>>

\* _handle_combat_command: a valid number, one round of the encounter
CombatTurn(cmd, roll_p, roll_e) ==
    /\ CombatInput(cmd)
    /\ is_valid_selection(cmd)
    /\ execute_combat_turn(player_actions[int_value[cmd[1]]], roll_p, roll_e)
    /\ UNCHANGED <<combat, level, current_room, inventory, ai_components_collected,
                   room_vars, turn, player_actions, created_with, steps>>

(***************************************************************************)
(* The dispatcher: the texts of Commands typed at any time outside an      *)
(* encounter, those of CombatInputs at any time during one; the damage     *)
(* rolls of an encounter are the nominal ones.                             *)
(***************************************************************************)
Commands ==
    { <<>>,
      <<"n">>, <<"s">>, <<"e">>, <<"go", "southeast">>,
      <<"take", "tokenizer">>, <<"take", "optimizer">>, <<"get", "fine_tuning">>,
      <<"take", "keyboard">>, <<"take", "the", "optimizer">>,
      <<"drop", "fine_tuning">>,
      <<"look">>, <<"i">>, <<"help">>, <<"?">>, <<"quit">>,
      <<"use", "optimizer">>,
      <<"attack", "skoolach">>, <<"attack", "bug">>,
      <<"talk", "skoolach">>,
      <<"xyzzy">>, <<"1">> }

\* what is typed during an encounter: every index of the list of actions, the
\* numbers just outside it, a negative number, the help token, other text
\* (a command of the world, a word that is none), nothing
CombatInputs ==
    { <<>>, <<"help">>, <<"?">>, <<"look">>, <<"xyzzy">>,
      <<"-1">>, <<"0">>, <<"1">>, <<"2">>, <<"3">>, <<"4">>, <<"5">> }

NominalRolls == {100}

Next ==
    \/ \E cmd \in Commands : Blank(cmd)
    \/ \E cmd \in Commands : ParseFailure(cmd)
    \/ \E cmd \in Commands : handle_quit(cmd)
    \/ \E cmd \in Commands : handle_help(cmd)
    \/ \E cmd \in Commands : handle_inventory(cmd)
    \/ \E cmd \in Commands : handle_look(cmd)
    \/ \E cmd \in Commands : handle_go(cmd)
    \/ \E cmd \in Commands : handle_take(cmd)
    \/ \E cmd \in Commands : handle_drop(cmd)
    \/ \E cmd \in Commands : handle_use(cmd)
    \/ \E cmd \in Commands : handle_attack(cmd)
    \/ \E cmd \in Commands : handle_talk(cmd)
    \/ \E cmd \in CombatInputs : CombatHelp(cmd)
    \/ \E cmd \in CombatInputs : CombatInvalid(cmd)
    \/ \E cmd \in CombatInputs, roll_p \in NominalRolls, roll_e \in NominalRolls :
          CombatTurn(cmd, roll_p, roll_e)

Spec == Init /\ [][Next]_vars

(***************************************************************************)
(* The combat system driven directly, as tests/test_combat.py drives it: a *)
(* Player who took some components, CombatSystem(player, SkoolachVirus()), *)
(* the two health fields set by the test, then calls of player_attack,     *)
(* enemy_attack and is_combat_over.  No GameEngine and no world exist.     *)
(***************************************************************************)
\* the components the fixture's player took, in order
ComponentFixtures ==
    { <<"tokenizer", "embedding", "attention">>,
      <<"optimizer", "fine_tuning", "tokenizer">> }

\* player.health of the fixture
HealthFixtures == {0, 1, 15, 69, 70, 71, 99, 100}

\* virus.health of the fixture
EnemyHealthFixtures == {0, 1, 9, 35, 37, 38, 59, 60, 75, 76, 129, 130, 131, 150}

\* the calls made on one fixture
MaxCalls == 2

\* The boss states of the fixtures are states an encounter reaches: in phase 3
\* the boss is at a quarter of its health or less (it got there at that health
\* and nothing it uses in phase 3 heals it)
InitCombat ==
    /\ running = FALSE
    /\ game_won = FALSE
    /\ in_combat = FALSE
    /\ combat = "CombatSystem"
    /\ level = 0
    /\ current_room = None
    /\ ai_components_collected \in ComponentFixtures
    /\ inventory = ai_components_collected
    /\ health \in HealthFixtures
    /\ room_items = [r \in Rooms |-> <<>>]
    /\ locked_exits = {}
    /\ enemy_health \in EnemyHealthFixtures
    /\ phase \in {1, 2, 3}
    /\ phase = 3 => 4 * enemy_health <= BossMaxHealth
    /\ turn = 0
    /\ player_actions = generate_player_actions(ai_components_collected)
    /\ created_with = ai_components_collected
    /\ response = Resp("CombatSystem")
    /\ calls = <<>>
    /\ steps = 0
    /\ choice_from = NoChoice

\* what a call on the fixture leaves alone
fixture_unchanged ==
    UNCHANGED <<engine_vars, level, current_room, inventory, ai_components_collected,
                room_vars, turn, player_actions, created_with>>

\* combat.player_attack(action) for an action of get_available_actions()
PlayerAttack(action, roll) ==
    /\ action \in Range(player_actions)
    /\ LET p == player_attack(health, enemy_health, action, roll) IN
       /\ health' = p.health
       /\ enemy_health' = p.enemy_health
       /\ response' = Narrative("player_attack", action.name, p.amount, p.healed)
    /\ calls' = <<"player_attack">>
    /\ steps' = steps + 1
    /\ UNCHANGED <<phase, choice_from>>
    /\ fixture_unchanged

\* combat.enemy_attack(): choose_action, then the action's damage and heal
EnemyAttack(roll) ==
    /\ phase' = next_phase(phase, enemy_health)
    /\ choice_from' = [phase |-> phase, enemy_health |-> enemy_health]
    /\ \E action \in phase_choices(phase', enemy_health) :
          LET e == enemy_attack(health, enemy_health, action, roll) IN
          /\ health' = e.health
          /\ enemy_health' = e.enemy_health
          /\ response' = Narrative("enemy_attack", action.name, e.amount, e.healed)
    /\ calls' = <<"choose_action", "enemy_attack">>
    /\ steps' = steps + 1
    /\ fixture_unchanged

\* combat.is_combat_over(): the tuple returned
IsCombatOver ==
    /\ LET r == is_combat_over(health, enemy_health) IN
       response' = Verdict(r)
    /\ calls' = <<"is_combat_over">>
    /\ steps' = steps + 1
    /\ UNCHANGED <<health, enemy_health, phase, choice_from>>
    /\ fixture_unchanged

NextCombat ==
    \/ \E action \in Range(player_actions), roll \in RollPercents :
          steps < MaxCalls /\ PlayerAttack(action, roll)
    \/ \E roll \in RollPercents : steps < MaxCalls /\ EnemyAttack(roll)
    \/ steps < MaxCalls /\ IsCombatOver

SpecCombat == InitCombat /\ [][NextCombat]_vars

(***************************************************************************)
(* A fresh encounter driven directly with the damage variance forced to    *)
(* nominal (random.uniform returning 1.0): the player of the tests, who    *)
(* took a tokenizer, an embedding layer and an attention head, uses        *)
(* Semantic Strike (damage 25) again and again, and the boss acts whenever *)
(* enemy_attack is called.                                                 *)
(***************************************************************************)
\* the calls made on the encounter
ScenarioCalls == 6

\* CombatSystem(player, SkoolachVirus()) as the constructors leave it
InitScenario ==
    /\ running = FALSE
    /\ game_won = FALSE
    /\ in_combat = FALSE
    /\ combat = "CombatSystem"
    /\ level = 0
    /\ current_room = None
    /\ ai_components_collected = <<"tokenizer", "embedding", "attention">>
    /\ inventory = ai_components_collected
    /\ health = PlayerMaxHealth
    /\ room_items = [r \in Rooms |-> <<>>]
    /\ locked_exits = {}
    /\ enemy_health = BossMaxHealth
    /\ phase = 1
    /\ turn = 0
    /\ player_actions = generate_player_actions(ai_components_collected)
    /\ created_with = ai_components_collected
    /\ response = Resp("CombatSystem")
    /\ calls = <<>>
    /\ steps = 0
    /\ choice_from = NoChoice

\* combat.player_attack(action) for the action named Semantic Strike
SemanticStrike(roll) ==
    \E action \in Range(player_actions) :
       /\ action.name = "Semantic Strike"
       /\ PlayerAttack(action, roll)

NextScenario ==
    \/ \E roll \in NominalRolls : steps < ScenarioCalls /\ SemanticStrike(roll)
    \/ \E roll \in NominalRolls : steps < ScenarioCalls /\ EnemyAttack(roll)

SpecScenario == InitScenario /\ [][NextScenario]_vars

(***************************************************************************)
(* Properties of the dispatcher (Spec).                                    *)
(***************************************************************************)
\* process_command(text) as one relation: whatever the dispatcher does with
\* the text cmd
process_command(cmd) ==
    IF cmd = <<>> THEN Blank(cmd)
    ELSE IF InCombat
    THEN \/ CombatHelp(cmd)
         \/ CombatInvalid(cmd)
         \/ \E roll_p \in NominalRolls, roll_e \in NominalRolls :
               CombatTurn(cmd, roll_p, roll_e)
    ELSE \/ ParseFailure(cmd)
         \/ handle_quit(cmd)
         \/ handle_help(cmd)
         \/ handle_inventory(cmd)
         \/ handle_look(cmd)
         \/ handle_go(cmd)
         \/ handle_take(cmd)
         \/ handle_drop(cmd)
         \/ handle_use(cmd)
         \/ handle_attack(cmd)
         \/ handle_talk(cmd)

\* C1: every round of _execute_combat_turn is the player's action, a check,
\* then (only if the boss is still alive) exactly one action of the boss and
\* a second check.  A round that leaves the boss at 0 health is a victory in
\* which the boss did not act and the player's health was not lowered; a
\* round after whose boss action the player is at 0 health is a defeat; only
\* a round that leaves both alive returns to the list of actions.
C1_RoundOrder ==
    [][\A cmd \in CombatInputs : \A roll_p \in NominalRolls, roll_e \in NominalRolls :
          CombatTurn(cmd, roll_p, roll_e) =>
             /\ calls' \in {ShortRound, FullRound}
             /\ enemy_health' = 0 =>
                   /\ calls' = ShortRound
                   /\ health' >= health
                   /\ response'.kind = "VICTORY!"
                   /\ game_won' /\ ~in_combat' /\ running'
             /\ enemy_health' > 0 => calls' = FullRound
             /\ (enemy_health' > 0 /\ health' = 0) =>
                   /\ response'.kind = "SYSTEM FAILURE"
                   /\ ~in_combat' /\ ~running' /\ game_won' = game_won
             /\ (enemy_health' > 0 /\ health' > 0) =>
                   /\ response'.kind = "Choose your next action:"
                   /\ in_combat' /\ running' /\ game_won' = game_won
      ]_vars

\* a victory in a round the boss did not act in, after rounds in which it did
C1_Witness ==
    /\ response.kind = "VICTORY!"
    /\ calls = ShortRound
    /\ enemy_health = 0
    /\ health < PlayerMaxHealth
    /\ game_won /\ ~in_combat

\* C2: within one encounter the phase of the boss never goes down, whatever
\* the boss's health does, and phase 3 is kept to the end of the encounter.
C2_PhaseMonotone ==
    [][InCombat => /\ phase' >= phase
                   /\ phase' \in 1..3
                   /\ phase = 3 => phase' = 3
      ]_vars

\* the boss chose an action in phase 2 with more than half of its health (it
\* had healed back over the threshold) and is still in phase 2
C2_Witness ==
    /\ in_combat
    /\ choice_from.phase = 2
    /\ 2 * choice_from.enemy_health > BossMaxHealth
    /\ phase = 2

\* C4: while an encounter is active, a text that is no 1-based index into
\* the available actions (0, a negative number, a number above the number of
\* actions, the help token, other text, blank input) gets a message back (the
\* empty one for blank input) and changes nothing: the boss does not act.
C4_InvalidCombatInput ==
    [][InCombat => \A cmd \in CombatInputs :
          ( /\ ~(is_int(cmd) /\ int_value[cmd[1]] \in 1..Len(player_actions))
            /\ process_command(cmd) ) =>
             /\ UNCHANGED <<game_vars, level, choice_from>>
             /\ "enemy_attack" \notin Range(calls')
             /\ "player_attack" \notin Range(calls')
             /\ response'.kind = 
                   IF cmd = <<>> THEN ""
                   ELSE IF is_combat_help(cmd) THEN "Available actions:"
                   ELSE IF is_int(cmd) THEN "Invalid action number."
                   ELSE "Enter the number of the action"
      ]_vars

\* a number out of range was typed in the middle of an encounter
C4_Witness ==
    /\ in_combat
    /\ response.kind = "Invalid action number."
    /\ enemy_health < BossMaxHealth
    /\ health < PlayerMaxHealth

\* C5: an attack on the boss by a player holding fewer than 3 components is
\* refused and changes nothing (no CombatSystem is created); with 3 or more
\* it creates the CombatSystem and sets in_combat; so an encounter is active
\* only if the player held at least 3 components when it was created.
C5_EncounterGating ==
    /\ [](in_combat => (combat # None /\ Len(created_with) >= 3))
    /\ [][~InCombat => \A cmd \in Commands :
            ( /\ handle_attack(cmd)
              /\ Parsed(cmd).args # <<>>
              /\ (name_has_virus(current_room)
                    \/ word_in_text("skoolach", Parsed(cmd).args)) ) =>
               IF Len(ai_components_collected) < 3
               THEN /\ response'.kind = "you're too weak!"
                    /\ UNCHANGED game_vars
               ELSE /\ response'.kind = "COMBAT INITIATED!"
                    /\ combat' = "CombatSystem"
                    /\ in_combat'
                    /\ created_with' = ai_components_collected
        ]_vars

\* the boss was attacked with exactly 2 components held, and no encounter exists
C5_Witness ==
    /\ response.kind = "you're too weak!"
    /\ Len(ai_components_collected) = 2
    /\ ~in_combat
    /\ combat = None

\* the original reading of C7: the level set on the parser never goes down
C7_LevelNeverDecreases == [][level' >= level]_vars

\* C7, amended: the level set on the parser before each parse is the number
\* of AI components the player holds at that moment; that number goes down
\* only by a successful drop of a component, by one, so the level is
\* non-decreasing over every sequence of commands with no such drop and is
\* lower by one from the first parse after one.
C7_LevelFollowsComponents ==
    [][ /\ ~InCombat =>
              \/ level' = Len(ai_components_collected)
              \/ \A cmd \in Commands : cmd # <<>> => ~process_command(cmd)
        /\ level' < level => Len(ai_components_collected) < level
        /\ Len(ai_components_collected') < Len(ai_components_collected) =>
              /\ response'.kind = "You drop"
              /\ Len(ai_components_collected') = Len(ai_components_collected) - 1
      ]_vars

\* the player held three components, dropped the Fine-tuning Module where it
\* had been (it now lies after the debugger) and typed a further command: the
\* level, 3 when the drop was parsed, is 2
C7_Witness ==
    /\ room_items["finetuning_lab"] = <<"debugger", "fine_tuning">>
    /\ Len(ai_components_collected) = 2
    /\ level = 2

\* C8: in every state of an encounter started by the dispatcher the player's
\* health is within 0..100 and the boss's within 0..150.
C8_HealthInRange ==
    /\ 0 <= health /\ health <= 100
    /\ combat # None => (0 <= enemy_health /\ enemy_health <= 150)

\* the boss chose Regenerate at less than 20 below its cap and is at the cap
C8_Witness ==
    /\ in_combat
    /\ choice_from.enemy_health \in (BossMaxHealth - 19)..(BossMaxHealth - 1)
    /\ enemy_health = BossMaxHealth

(***************************************************************************)
(* Properties of the combat system driven directly (SpecCombat).           *)
(***************************************************************************)
\* C3: every choice of an action evaluates the phase transition on the health
\* the boss has at that moment: from phase 1 at half of the maximum or less
\* to phase 2, from phase 2 at a quarter or less to phase 3, otherwise no
\* change; at health 75 of 150 phase 1 becomes 2, at 35 phase 2 becomes 3.
C3_PhaseTransition ==
    [][\A roll \in RollPercents : EnemyAttack(roll) =>
          /\ phase' = IF phase = 1 /\ 2 * enemy_health <= 150 THEN 2
                      ELSE IF phase = 2 /\ 4 * enemy_health <= 150 THEN 3
                      ELSE phase
          /\ (phase = 1 /\ enemy_health = 75) => phase' = 2
          /\ (phase = 2 /\ enemy_health = 35) => phase' = 3
      ]_vars

\* the boss chose an action in phase 2 at health 35 and is in phase 3
C3_Witness ==
    /\ calls = <<"choose_action", "enemy_attack">>
    /\ choice_from = [phase |-> 2, enemy_health |-> 35]
    /\ phase = 3

\* C6: is_combat_over reports over exactly when the boss is at 0 health or
\* the player at 0 or below, names one winner then and none otherwise, and
\* names the player when both are at 0.
C6_CombatOverVerdict ==
    response.kind = "is_combat_over" =>
       /\ response.over <=> (enemy_health = 0 \/ health <= 0)
       /\ response.over <=> (response.winner \in {"player", "enemy"})
       /\ ~response.over <=> (response.winner = None)
       /\ (enemy_health = 0 /\ health = 0) => response.winner = "player"
       /\ response.winner = "player" <=> enemy_health = 0
       /\ response.winner = "enemy" <=> (enemy_health > 0 /\ health <= 0)
       /\ (enemy_health > 0 /\ health > 0) => (~response.over /\ response.winner = None)

\* is_combat_over was called with both actors at 0 health
C6_Witness ==
    /\ response.kind = "is_combat_over"
    /\ calls = <<"is_combat_over">>
    /\ health = 0
    /\ enemy_health = 0
    /\ response.winner = "player"

\* the action of the boss named in a narrative
virus_action(n) == CHOOSE a \in Range(virus_actions) : a.name = n

\* C9: a heal applied within `heal` of the cap (100 for the player, 150 for
\* the boss) leaves the health at the cap and reports new minus old health;
\* applied further below the cap it adds exactly `heal`.
C9_HealClamp ==
    [][ /\ \A action \in Range(player_actions), roll \in RollPercents :
              (action.heal > 0 /\ PlayerAttack(action, roll)) =>
                  /\ response'.healed = health' - health
                  /\ IF health + action.heal >= 100
                     THEN health' = 100
                     ELSE health' = health + action.heal
        /\ \A roll \in RollPercents :
              (EnemyAttack(roll) /\ virus_action(response'.action).heal > 0) =>
                  LET heal == virus_action(response'.action).heal IN
                  /\ response'.healed = enemy_health' - enemy_health
                  /\ IF enemy_health + heal >= 150
                     THEN enemy_health' = 150
                     ELSE enemy_health' = enemy_health + heal
      ]_vars

\* Self-Optimize (heal 30) used at health 99: health 100, 1 reported
C9_Witness ==
    /\ response.kind = "player_attack"
    /\ response.action = "Self-Optimize"
    /\ response.healed = 1
    /\ health = 100

\* C10: an attack with an action of nominal damage d > 0 applies an integer
\* amount in floor(0.9 d)..ceil(1.1 d), the target's health clamped at 0; an
\* action of damage 0 leaves the target's health alone.
C10_DamageRange ==
    [][ /\ \A action \in Range(player_actions), roll \in RollPercents :
              PlayerAttack(action, roll) =>
                  IF action.damage > 0
                  THEN /\ response'.amount \in
                             ((9 * action.damage) \div 10)..((11 * action.damage + 9) \div 10)
                       /\ enemy_health' = Max(0, enemy_health - response'.amount)
                  ELSE /\ response'.amount = NoAmount
                       /\ enemy_health' = enemy_health
        /\ \A roll \in RollPercents :
              EnemyAttack(roll) =>
                  LET d == virus_action(response'.action).damage IN
                  IF d > 0
                  THEN /\ response'.amount \in ((9 * d) \div 10)..((11 * d + 9) \div 10)
                       /\ health' = Max(0, health - response'.amount)
                  ELSE /\ response'.amount = NoAmount
                       /\ health' = health
      ]_vars

\* Memory Corruption (damage 15) applied with its least amount, 13
C10_Witness ==
    /\ response.kind = "enemy_attack"
    /\ response.action = "Memory Corruption"
    /\ response.amount = 13

\* the component types of the action catalog, as the claim lists them
CatalogTypes ==
    {"tokenizer", "embedding", "attention", "neural_layer", "training_data",
     "optimizer", "inference", "context"}

\* the components of a list whose type is in the catalog, in the list's order
InCatalog(i) == ItemData[i].component_type \in CatalogTypes
Catalogued(components) == SelectSeq(components, InCatalog)

\* C11: at every point of an encounter the list of available actions is the
\* one computed at creation: Debug Attack, then one action per component held
\* at creation whose type is in the catalog, in the order collected, then
\* Self-Optimize (heal 30) if and only if an optimizer was held; no call
\* changes the list.
C11_ActionList ==
    /\ [](LET held == Catalogued(created_with)
              opt  == \E k \in 1..Len(created_with) : created_with[k] = "optimizer"
              n    == Len(player_actions)
          IN
          /\ n = 1 + Len(held) + (IF opt THEN 1 ELSE 0)
          /\ player_actions[1] = [name |-> "Debug Attack", damage |-> 10, heal |-> 0]
          /\ \A k \in 1..Len(held) :
                /\ player_actions[k + 1] = component_actions[ItemData[held[k]].component_type]
                /\ player_actions[k + 1].damage > 0
                /\ player_actions[k + 1].heal = 0
          /\ opt <=> player_actions[n] = [name |-> "Self-Optimize", damage |-> 0, heal |-> 30]
          /\ \A k \in 1..n : player_actions[k].name = "Self-Optimize" => (k = n /\ opt))
    /\ [][player_actions' = player_actions]_vars

\* calls were made on an encounter created with an optimizer, a fine-tuning
\* module and a tokenizer: four actions, none for the fine-tuning module
C11_Witness ==
    /\ steps = MaxCalls
    /\ created_with = <<"optimizer", "fine_tuning", "tokenizer">>
    /\ Len(player_actions) = 4
    /\ player_actions[2].name = "Gradient Descent"
    /\ player_actions[3].name = "Token Blast"

\* C12: the turn counter of the combat system is 0 when the encounter is
\* created and goes up by one with every full round (the player's action
\* followed by the boss's), so that it counts the completed rounds.
C12_TurnCountsRounds ==
    /\ [][(~in_combat /\ in_combat') => turn' = 0]_vars
    /\ [][InCombat => \A cmd \in CombatInputs :
             \A roll_p \in NominalRolls, roll_e \in NominalRolls :
                (CombatTurn(cmd, roll_p, roll_e) /\ calls' = FullRound) =>
                    turn' = turn + 1
         ]_vars

(***************************************************************************)
(* Properties of the scenario with the variance forced to nominal          *)
(* (SpecScenario).                                                         *)
(***************************************************************************)
\* the original reading of C13: five applications of the damage-25 action
\* leave the boss at exactly 25 health, and the phase is 2 (or more) as soon
\* as the health is 75 or less
C13_PhaseTwoAtHalfHealth ==
    /\ (choice_from = NoChoice /\ steps = 5) => enemy_health = 25
    /\ enemy_health <= 75 => phase >= 2

\* C13, amended: k applications of the damage-25 action at nominal variance,
\* with no action of the boss, leave the boss at 150 - 25 k health (25 after
\* five) and in phase 1, player_attack not touching the phase; the phase
\* becomes 2 at the first choice of an action the boss makes at health 75 or
\* less, and not at one it makes above 75.
C13_StalePhaseUntilChoice ==
    /\ [](choice_from = NoChoice =>
             /\ enemy_health = Max(0, 150 - 25 * steps)
             /\ steps = 5 => enemy_health = 25
             /\ phase = 1)
    /\ [][\A roll \in NominalRolls :
             (EnemyAttack(roll) /\ phase = 1) =>
                 (phase' = 2 <=> enemy_health <= 75)
         ]_vars

\* five applications and no action of the boss: health 25, phase still 1
C13_Witness ==
    /\ steps = 5
    /\ choice_from = NoChoice
    /\ calls = <<"player_attack">>
    /\ enemy_health = 25
    /\ phase = 1

-----------------------------------------------------------------------------
\* The parser on its own: a Parser is constructed (level 0), its level is set
\* with set_level, and parse is called on one command text.  The text is the
\* sequence of the lower-cased, whitespace-separated tokens of the input
\* (parse strips and lower-cases the input, the grammars split it); it is
\* drawn once, so that the same text is parsed at several levels.

MaxTokens == 3
MaxParserLevel == 3

\* the words multi-token texts are made of: verb words (two of them synonyms
\* of one verb), a zero-argument verb, a direction abbreviation, a full
\* direction name, an article, a preposition, a noun and an unknown word
Vocabulary ==
    {"take", "get", "go", "look", "n", "north", "the", "to", "key", "xyzzy"}

\* single-token texts: every abbreviation, every direction name, every verb word
SingleTokens ==
    {"n", "s", "e", "w", "ne", "nw", "se", "sw", "u", "d"}
        \cup {"north", "south", "east", "west", "up", "down",
              "northeast", "northwest", "southeast", "southwest"}
        \cup UNION {verbs[i].synonyms : i \in 1..Len(verbs)}

ParserInputs ==
    UNION {[1..k -> Vocabulary] : k \in 0..MaxTokens}
        \cup {<<w>> : w \in SingleTokens}

\* what parse returns: (verb, args, original), with the level it ran at
parse_returns(lvl, words) ==
    [kind |-> "parse", level |-> lvl, original |-> words,
     verb |-> parse(lvl, words).verb, args |-> parse(lvl, words).args]

\* Parser() and a text about to be parsed
InitParser ==
    /\ \E words \in ParserInputs :
           response = [kind |-> "text", level |-> 0, original |-> words,
                       verb |-> None, args |-> <<>>]
    /\ level = 0
    /\ running = TRUE
    /\ game_won = FALSE
    /\ in_combat = FALSE
    /\ combat = None
    /\ current_room = "crash_site"
    /\ inventory = <<>>
    /\ ai_components_collected = <<>>
    /\ health = PlayerMaxHealth
    /\ room_items = initial_room_items
    /\ locked_exits = initial_locked_exits
    /\ enemy_health = 0
    /\ phase = 1
    /\ turn = 0
    /\ player_actions = <<>>
    /\ created_with = <<>>
    /\ calls = <<>>
    /\ steps = 0
    /\ choice_from = NoChoice

\* Parser.set_level
set_level(new_level) ==
    /\ level' = new_level
    /\ UNCHANGED <<game_vars, response, calls, steps, choice_from>>

\* Parser.parse called on the text
Parse ==
    /\ response' = parse_returns(level, response.original)
    /\ UNCHANGED <<game_vars, level, calls, steps, choice_from>>

NextParser ==
    \/ \E new_level \in 0..MaxParserLevel : set_level(new_level)
    \/ Parse

SpecParser == InitParser /\ [][NextParser]_vars

\* the zero-argument verbs of the level-0 grammar
ZeroArgVerbs == {"inventory", "help", "quit", "look"}

\* the result of the last parse
Result == ParseResult(response.verb, response.args)

Failure == ParseResult(None, <<>>)

\* C14 (as stated): at level 0 the parser accepts exactly three shapes --
\* a lone direction (abbreviation or full name) gives go with that direction,
\* a lone word of a zero-argument verb gives that verb without arguments, two
\* tokens whose first is a verb word give (verb, [second token]) -- and every
\* other input, a lone word of any other verb included, gives the failure
\* result.
C14_ThreeShapesOnly ==
    (response.kind = "parse" /\ response.level = 0) =>
        LET words == response.original IN
        IF Len(words) = 1 /\ words[1] \in DOMAIN directions
        THEN Result = ParseResult("go", <<directions[words[1]]>>)
        ELSE IF Len(words) = 1 /\ words[1] \in full_directions
        THEN Result = ParseResult("go", <<words[1]>>)
        ELSE IF Len(words) = 1 /\ find_verb(words[1]) \in ZeroArgVerbs
        THEN Result = ParseResult(find_verb(words[1]), <<>>)
        ELSE IF Len(words) = 2 /\ find_verb(words[1]) # None
        THEN Result = ParseResult(find_verb(words[1]), <<words[2]>>)
        ELSE Result = Failure

\* C14 (amended): at level 0 the parser accepts exactly these shapes -- a
\* lone direction gives go with that direction, a lone verb word gives that
\* verb without arguments (whether or not the verb takes arguments), two
\* tokens whose first is a verb word give (verb, [second token]) -- and
\* every other input (empty, first word not a verb, more than two tokens)
\* gives the failure result.
C14_LoneVerbAccepted ==
    (response.kind = "parse" /\ response.level = 0) =>
        LET words == response.original IN
        IF Len(words) = 1 /\ words[1] \in DOMAIN directions
        THEN Result = ParseResult("go", <<directions[words[1]]>>)
        ELSE IF Len(words) = 1 /\ words[1] \in full_directions
        THEN Result = ParseResult("go", <<words[1]>>)
        ELSE IF Len(words) = 1 /\ find_verb(words[1]) # None
        THEN Result = ParseResult(find_verb(words[1]), <<>>)
        ELSE IF Len(words) = 2 /\ find_verb(words[1]) # None
        THEN Result = ParseResult(find_verb(words[1]), <<words[2]>>)
        ELSE Result = Failure

\* "take" alone has been parsed at level 0 and came back as (take, [])
C14_Witness ==
    /\ response.kind = "parse"
    /\ response.level = 0
    /\ response.original = <<"take">>
    /\ Result = ParseResult("take", <<>>)

\* the direction table of the claim
C15_Expansion ==
    [a \in {"n", "s", "e", "w", "ne", "nw", "se", "sw", "u", "d"} |->
        CASE a = "n"  -> "north"
          [] a = "s"  -> "south"
          [] a = "e"  -> "east"
          [] a = "w"  -> "west"
          [] a = "ne" -> "northeast"
          [] a = "nw" -> "northwest"
          [] a = "se" -> "southeast"
          [] a = "sw" -> "southwest"
          [] a = "u"  -> "up"
          [] a = "d"  -> "down"]

\* C15: at every parser level, a command that is one direction abbreviation
\* (n, s, e, w, ne, nw, se, sw, u, d) parses to go with the full direction
\* name as its only argument.
C15_DirectionCanonicalization ==
    (/\ response.kind = "parse"
     /\ Len(response.original) = 1
     /\ response.original[1] \in DOMAIN C15_Expansion) =>
        Result = ParseResult("go", <<C15_Expansion[response.original[1]]>>)

\* "sw" has been parsed at the highest level and came back as go southwest
C15_Witness ==
    /\ response.kind = "parse"
    /\ response.level = MaxParserLevel
    /\ response.original = <<"sw">>
    /\ Result = ParseResult("go", <<"southwest">>)

\* the articles and prepositions of the claims
FillerWords == {"a", "an", "the", "at", "to", "with", "on", "in", "from"}

\* C16: a two-token command whose second token is neither an article nor a
\* preposition and which level 0 accepts is accepted at every level >= 1
\* with the same canonical verb and the same arguments.
C16_GrammarGrowth ==
    (/\ response.kind = "parse"
     /\ response.level >= 1
     /\ Len(response.original) = 2
     /\ response.original[2] \notin FillerWords
     /\ parse(0, response.original) # Failure) =>
        /\ Result # Failure
        /\ Result = parse(0, response.original)

\* "get key", which level 0 reads as (take, [key]), has been parsed at level 2
C16_Witness ==
    /\ response.kind = "parse"
    /\ response.level = 2
    /\ response.original = <<"get", "key">>
    /\ parse(0, response.original) = ParseResult("take", <<"key">>)
    /\ Result = ParseResult("take", <<"key">>)

\* words with the token at position i removed
RemoveAt(words, i) == [j \in 1..(Len(words) - 1) |->
                          IF j < i THEN words[j] ELSE words[j + 1]]

\* words with token w inserted so that it stands at position i
InsertAt(words, i, w) == [j \in 1..(Len(words) + 1) |->
                             IF j < i THEN words[j]
                             ELSE IF j = i THEN w ELSE words[j - 1]]

\* C17: at every level >= 1, for a command whose first token is a verb
\* word, removing an article or preposition that stands after the verb, or
\* inserting one anywhere after the verb, leaves (verb, args) unchanged, and
\* the arguments are the remaining tokens in their original order.
C17_FillersIgnored ==
    (/\ response.kind = "parse"
     /\ response.level >= 1
     /\ response.original # <<>>
     /\ find_verb(response.original[1]) # None) =>
        LET words == response.original IN
        /\ \A i \in 2..Len(words) :
               words[i] \in FillerWords =>
                   parse(response.level, RemoveAt(words, i)) = Result
        /\ \A i \in 2..(Len(words) + 1) : \A w \in FillerWords :
               parse(response.level, InsertAt(words, i, w)) = Result
        /\ response.args = FilterOut(Tail(words), FillerWords)

\* "take to key" has been parsed at level 1 and came back as (take, [key]),
\* which is what "take key" gives
C17_Witness ==
    /\ response.kind = "parse"
    /\ response.level = 1
    /\ response.original = <<"take", "to", "key">>
    /\ Result = ParseResult("take", <<"key">>)
    /\ parse(1, <<"take", "key">>) = Result

\* C18: outside combat, a command the parser cannot parse is answered with
\* the suggestion of the current level (the two-word hint at level 0, the
\* HELP hint above) and leaves the session as it was: still running, same
\* location, inventory, health, in_combat and game_won.
C18_ParseFailureHarmless ==
    [][(~InCombat /\ running) =>
          \A cmd \in Commands :
              (cmd # <<>> /\ Parsed(cmd).verb = None /\ process_command(cmd)) =>
                  /\ response'.kind =
                         IF level' = 0
                         THEN "Try using simple two-word commands"
                         ELSE "I don't understand that command. Type HELP"
                  /\ level' = Len(ai_components_collected)
                  /\ running' /\ ~in_combat'
                  /\ UNCHANGED game_vars]_vars

\* an unparseable command has just been answered with the HELP hint, with a
\* component in the inventory and away from the first room
C18_Witness ==
    /\ response = Resp("I don't understand that command. Type HELP")
    /\ level >= 1
    /\ running
    /\ ~in_combat
    /\ inventory # <<>>
    /\ current_room # "crash_site"

\* C19: the action the boss executes is constrained by the phase in force
\* after the transition check of that choice: in phase 1 its damage is
\* strictly between 0 and 30 (never Stack Overflow, never Regenerate), in
\* phase 3 its damage is at least 20 (Parser Degradation or Stack Overflow,
\* never Regenerate), in phase 2 it is one of the five actions.
C19_PhaseConstrainsAction ==
    calls = <<"choose_action", "enemy_attack">> =>
        /\ phase \in {1, 2, 3}
        /\ \E a \in Range(virus_actions) : a.name = response.action
        /\ LET a == virus_action(response.action) IN
           /\ phase = 1 =>
                  /\ a.damage > 0 /\ a.damage < 30
                  /\ a.name \notin {"Stack Overflow", "Regenerate"}
           /\ phase = 3 =>
                  /\ a.damage >= 20
                  /\ a.name \in {"Parser Degradation", "Stack Overflow"}
           /\ phase = 2 =>
                  a.name \in {"Memory Corruption", "Parser Degradation",
                              "Data Leak", "Stack Overflow", "Regenerate"}

\* the boss, in phase 2 before the choice, moved to phase 3 and executed
\* Stack Overflow
C19_Witness ==
    /\ calls = <<"choose_action", "enemy_attack">>
    /\ choice_from.phase = 2
    /\ phase = 3
    /\ response.action = "Stack Overflow"

-----------------------------------------------------------------------------
\* The player on its own: a Player is constructed and take_item and
\* drop_item are called on it with items of the world, in any order, the
\* same item as often as the caller likes.

MaxPlayerCalls == 5

\* the items handed to the calls: a regular item, an item that cannot be
\* taken, and two AI components
PlayerItems == {"flashlight", "keyboard", "tokenizer", "embedding"}

\* what the player carries at the start: nothing, or nine items taken before
\* (one short of max_inventory)
InventoryFixtures ==
    { <<>>,
      <<"flashlight", "tokenizer", "embedding", "training_data", "attention",
        "debugger", "neural_layer", "optimizer", "inference">> }

\* the (success, message) tuple of take_item and drop_item, for item i
Outcome(message, i) == [Resp(message) EXCEPT !.action = i]

\* Player("Tester"), possibly after the takes of a fixture
InitPlayer ==
    /\ inventory \in InventoryFixtures
    /\ ai_components_collected =
          FilterOut(inventory, {i \in Items : ~ItemData[i].is_ai_component})
    /\ health = PlayerMaxHealth
    /\ current_room = "crash_site"
    /\ level = 0
    /\ running = TRUE
    /\ game_won = FALSE
    /\ in_combat = FALSE
    /\ combat = None
    /\ room_items = initial_room_items
    /\ locked_exits = initial_locked_exits
    /\ enemy_health = 0
    /\ phase = 1
    /\ turn = 0
    /\ player_actions = <<>>
    /\ created_with = <<>>
    /\ response = Resp("Player")
    /\ calls = <<>>
    /\ steps = 0
    /\ choice_from = NoChoice

\* what no call on the player touches
player_call_unchanged ==
    UNCHANGED <<engine_vars, level, current_room, health, room_vars,
                combat_vars, choice_from>>

\* a drop_item that leaves the component tracking alone
drop_item_keeps_tracking(i) ==
    /\ IF i \notin Range(inventory)
       THEN /\ response' = Outcome("You don't have", i)
            /\ UNCHANGED <<inventory, ai_components_collected>>
       ELSE /\ inventory' = RemoveFirst(inventory, i)
            /\ UNCHANGED ai_components_collected
            /\ response' = Outcome("You drop", i)
    /\ calls' = <<"drop_item">>
    /\ steps' = steps + 1
    /\ player_call_unchanged

\* Player.take_item
take_item(i) ==
    /\ IF take_item_result(i) # "You take"
       THEN /\ response' = Outcome(take_item_result(i), i)
            /\ UNCHANGED <<inventory, ai_components_collected>>
       ELSE /\ inventory' = Append(inventory, i)
            /\ ai_components_collected' =
                  IF ItemData[i].is_ai_component
                  THEN Append(ai_components_collected, i)
                  ELSE ai_components_collected
            /\ response' = Outcome("You take", i)
    /\ calls' = <<"take_item">>
    /\ steps' = steps + 1
    /\ player_call_unchanged

\* Player.drop_item
drop_item(i) ==
    /\ IF i \notin Range(inventory)
       THEN /\ response' = Outcome("You don't have", i)
            /\ UNCHANGED <<inventory, ai_components_collected>>
       ELSE /\ inventory' = RemoveFirst(inventory, i)
            /\ ai_components_collected' =
                  IF ItemData[i].is_ai_component
                     /\ i \in Range(ai_components_collected)
                  THEN RemoveFirst(ai_components_collected, i)
                  ELSE ai_components_collected
            /\ response' = Outcome("You drop", i)
    /\ calls' = <<"drop_item">>
    /\ steps' = steps + 1
    /\ player_call_unchanged

NextPlayer ==
    \/ \E i \in PlayerItems : steps < MaxPlayerCalls /\ take_item(i)
    \/ \E i \in PlayerItems : steps < MaxPlayerCalls /\ drop_item(i)

SpecPlayer == InitPlayer /\ [][NextPlayer]_vars

\* the AI components among the items of a list, in the order of the list
ComponentsOf(items) ==
    FilterOut(items, {i \in Items : ~ItemData[i].is_ai_component})

\* C20: after any sequence of take_item and drop_item calls,
\* ai_components_collected holds exactly the AI components that are in the
\* inventory (no regular item, no dropped component), and get_parser_level()
\* is their number.
C20_TrackingMatchesInventory ==
    /\ ai_components_collected = ComponentsOf(inventory)
    /\ \A k \in 1..Len(ai_components_collected) :
           ItemData[ai_components_collected[k]].is_ai_component
    /\ get_parser_level = Len(ComponentsOf(inventory))

\* the tokenizer has just been dropped by a player who still carries the
\* flashlight and the embedding matrix
C20_Witness ==
    /\ response = Outcome("You drop", "tokenizer")
    /\ inventory = <<"flashlight", "embedding">>
    /\ ai_components_collected = <<"embedding">>
    /\ get_parser_level = 1

-----------------------------------------------------------------------------
\* The way to the boss: the dispatcher from the constructed world, with the
\* commands of a player who walks the rooms between the crash site, the
\* lab that holds the quantum debugger and the Hall of Triumph, picks up
\* components on the way, and carries or leaves the debugger.  This player
\* never attacks, so no encounter starts.

JourneyCommands ==
    { <<"n">>, <<"s">>, <<"e">>, <<"w">>, <<"nw">>, <<"se">>,
      <<"go", "up">>,
      <<"take", "debugger">>, <<"drop", "debugger">>,
      <<"take", "tokenizer">>, <<"take", "training_data">>,
      <<"take", "codex">> }

NextJourney ==
    \/ \E cmd \in JourneyCommands : handle_go(cmd)
    \/ \E cmd \in JourneyCommands : handle_take(cmd)
    \/ \E cmd \in JourneyCommands : handle_drop(cmd)

SpecJourney == Init /\ [][NextJourney]_vars

\* the exit of the current room in a direction is locked
is_locked(direction) ==
    \E l \in locked_exits : l[1] = current_room /\ l[2] = direction

\* the inventory holds an item whose name is the one the lock asks for
holds_required(direction) ==
    \E l \in locked_exits :
        /\ l[1] = current_room /\ l[2] = direction
        /\ \E k \in 1..Len(inventory) : ItemData[inventory[k]].name = l[3]

\* C21: a go through a locked exit moves the player only if the inventory
\* holds an item whose name is the exit's required item; when the item is
\* missing, or the direction is no exit of the current room, the move is
\* refused with a message and the player's room and the locks are unchanged.
C21_LockedExitNeedsItem ==
    [][\A cmd \in JourneyCommands :
          (handle_go(cmd) /\ Parsed(cmd).args # <<>>) =>
              LET direction == Parsed(cmd).args[1] IN
              /\ (is_locked(direction) /\ current_room' # current_room) =>
                     holds_required(direction)
              /\ (is_locked(direction) /\ ~holds_required(direction)) =>
                     /\ response' = Resp("The way is blocked.")
                     /\ UNCHANGED <<current_room, locked_exits>>
              /\ get_exit(current_room, direction) = None =>
                     /\ response' = Resp("You can't go that way.")
                     /\ UNCHANGED <<current_room, locked_exits>>]_vars

\* the player, carrying the tokenizer but not the debugger, has just been
\* refused at the locked exit of the Corrupted Gateway
C21_Witness ==
    /\ response = Resp("The way is blocked.")
    /\ current_room = "virus_entrance"
    /\ <<"virus_entrance", "northwest", <<"quantum", "debugger">> >> \in locked_exits
    /\ "tokenizer" \in Range(inventory)
    /\ "debugger" \notin Range(inventory)

\* C22: the Hall of Triumph is only accessible after defeating the virus --
\* whenever the player's current room is the Hall of Triumph, game_won is
\* true.
C22_HallOnlyAfterVictory ==
    current_room = "hall_of_triumph" => game_won

-----------------------------------------------------------------------------
\* The collector: the dispatcher from the constructed world, or from the
\* world as it is once the player has picked up nine of its eleven takeable
\* items and stands in the Fine-Tuning Lab, where the last two lie.

\* the nine items taken on the way to the lab, in the order of a walk
\* through the rooms
NineItems ==
    <<"flashlight", "tokenizer", "embedding", "training_data", "attention",
      "inference", "context", "neural_layer", "optimizer">>

HoardFixtures ==
    { [current_room |-> "crash_site", inventory |-> <<>>,
       room_items |-> initial_room_items],
      [current_room |-> "finetuning_lab", inventory |-> NineItems,
       room_items |-> [r \in Rooms |->
                          IF r = "crash_site" THEN <<"keyboard">>
                          ELSE IF r = "dark_archives" THEN <<"codex">>
                          ELSE IF r = "finetuning_lab" THEN <<"fine_tuning", "debugger">>
                          ELSE <<>>]] }

InitHoard ==
    /\ \E f \in HoardFixtures :
          /\ current_room = f.current_room
          /\ inventory = f.inventory
          /\ room_items = f.room_items
    /\ ai_components_collected =
          FilterOut(inventory, {i \in Items : ~ItemData[i].is_ai_component})
    /\ level = Len(ai_components_collected)
    /\ running = TRUE
    /\ game_won = FALSE
    /\ in_combat = FALSE
    /\ combat = None
    /\ health = PlayerMaxHealth
    /\ locked_exits = initial_locked_exits
    /\ enemy_health = 0
    /\ phase = 1
    /\ turn = 0
    /\ player_actions = <<>>
    /\ created_with = <<>>
    /\ response = Resp("room description")
    /\ calls = <<>>
    /\ steps = 0
    /\ choice_from = NoChoice

HoardCommands ==
    { <<"take", "fine_tuning">>, <<"take", "debugger">>, <<"take", "flashlight">>,
      <<"take", "keyboard">>,
      <<"drop", "fine_tuning">>, <<"drop", "debugger">>, <<"drop", "flashlight">>,
      <<"w">>, <<"e">> }

NextHoard ==
    \/ \E cmd \in HoardCommands : handle_go(cmd)
    \/ \E cmd \in HoardCommands : handle_take(cmd)
    \/ \E cmd \in HoardCommands : handle_drop(cmd)

SpecHoard == InitHoard /\ [][NextHoard]_vars

\* C23: the inventory never holds more than 10 items; a take attempted with
\* a full inventory, or of an item that cannot be taken, fails with a
\* message, leaves the inventory and ai_components_collected as they were,
\* and leaves the item in the room.
C23_InventoryCap ==
    /\ [](Len(inventory) <= 10)
    /\ [][\A cmd \in HoardCommands :
             (/\ handle_take(cmd)
              /\ Parsed(cmd).args # <<>>
              /\ get_item(room_items[current_room], Parsed(cmd).args) # None) =>
                 LET item == get_item(room_items[current_room], Parsed(cmd).args) IN
                 (Len(inventory) >= 10 \/ ~ItemData[item].takeable) =>
                     /\ response' = IF Len(inventory) >= 10
                                    THEN Resp("Your inventory is full.")
                                    ELSE Resp("You can't take")
                     /\ UNCHANGED <<inventory, ai_components_collected, room_items>>
                     /\ item \in Range(room_items'[current_room'])]_vars

\* with ten items carried, the take of the debugger has just been refused
\* and the debugger is still in the lab
C23_Witness ==
    /\ response = Resp("Your inventory is full.")
    /\ Len(inventory) = 10
    /\ current_room = "finetuning_lab"
    /\ "debugger" \in Range(room_items["finetuning_lab"])
    /\ "debugger" \notin Range(inventory)

\* C24: one choice of an action advances the phase of the boss by at most
\* one step -- a boss in phase 1 whose health is already at a quarter of the
\* maximum or less moves to phase 2, not 3, and that action is chosen under
\* the phase-2 policy; phase 3 is reached by a later choice only.
C24_OnePhaseStepPerChoice ==
    calls = <<"choose_action", "enemy_attack">> =>
        /\ phase \in {choice_from.phase, choice_from.phase + 1}
        /\ phase = 3 => choice_from.phase \in {2, 3}
        /\ (choice_from.phase = 1 /\ 4 * choice_from.enemy_health <= 150) =>
               /\ phase = 2
               /\ response.action \in
                      {"Memory Corruption", "Parser Degradation", "Data Leak",
                       "Stack Overflow", "Regenerate"}

\* the boss, in phase 1 at health 35 (below a quarter), chose its action: it
\* is in phase 2 and used Regenerate, which only the phase-2 policy offers
C24_Witness ==
    /\ calls = <<"choose_action", "enemy_attack">>
    /\ choice_from = [phase |-> 1, enemy_health |-> 35]
    /\ phase = 2
    /\ response.action = "Regenerate"

\* C25: the health of the boss increases only through an action of the boss
\* chosen while its phase is 2 (Regenerate): no player action increases it,
\* no action of the boss in phase 1 or 3 increases it, and once the boss is
\* in phase 3 its health never increases again.
C25_OnlyPhaseTwoHeals ==
    [][ /\ enemy_health' > enemy_health =>
              /\ calls' = <<"choose_action", "enemy_attack">>
              /\ phase' = 2
              /\ response'.action = "Regenerate"
        /\ phase = 3 => (phase' = 3 /\ enemy_health' <= enemy_health)
      ]_vars

\* the boss, choosing in phase 2 at health 59, regenerated to 79
C25_Witness ==
    /\ calls = <<"choose_action", "enemy_attack">>
    /\ choice_from = [phase |-> 2, enemy_health |-> 59]
    /\ phase = 2
    /\ response.action = "Regenerate"
    /\ response.healed = 20
    /\ enemy_health = 79

-----------------------------------------------------------------------------
\* One encounter, round by round: the dispatcher in the state it is in when
\* a player who took the tokenizer, the optimizer and the fine-tuning module
\* has typed `attack skoolach` in the Fine-Tuning Lab.  steps counts the
\* rounds played while nobody has healed; it is HealUsed from the first
\* Self-Optimize or Regenerate on.

MaxRounds == 13

HealUsed == 0 - 1

EncounterComponents == <<"tokenizer", "optimizer", "fine_tuning">>

InitEncounter ==
    /\ running = TRUE
    /\ game_won = FALSE
    /\ in_combat = TRUE
    /\ combat = "CombatSystem"
    /\ current_room = "finetuning_lab"
    /\ inventory = EncounterComponents
    /\ ai_components_collected = EncounterComponents
    /\ level = Len(EncounterComponents)
    /\ health = PlayerMaxHealth
    /\ room_items = [initial_room_items EXCEPT !["tokenizer_chamber"] = <<>>,
                                               !["optimization_chamber"] = <<>>,
                                               !["finetuning_lab"] = <<"debugger">>]
    /\ locked_exits = initial_locked_exits
    /\ enemy_health = BossMaxHealth
    /\ phase = 1
    /\ turn = 0
    /\ player_actions = generate_player_actions(EncounterComponents)
    /\ created_with = EncounterComponents
    /\ response = Resp("COMBAT INITIATED!")
    /\ calls = <<>>
    /\ steps = 0
    /\ choice_from = NoChoice

\* the numbers typed: Debug Attack, Gradient Descent, Self-Optimize
EncounterInputs == { <<"1">>, <<"3">>, <<"4">> }

\* the boss acted in the round and did no damage: it regenerated
boss_regenerated(action, roll_p) ==
    /\ calls' = FullRound
    /\ health' = player_attack(health, enemy_health, action, roll_p).health

\* _handle_combat_command with a valid number: one round, counted
Round(cmd, roll_p, roll_e) ==
    /\ CombatInput(cmd)
    /\ is_valid_selection(cmd)
    /\ LET action == player_actions[int_value[cmd[1]]] IN
       /\ execute_combat_turn(action, roll_p, roll_e)
       /\ steps' = IF steps = HealUsed \/ action.heal > 0
                       \/ boss_regenerated(action, roll_p)
                    THEN HealUsed
                    ELSE steps + 1
    /\ UNCHANGED <<combat, level, current_room, inventory, ai_components_collected,
                   room_vars, turn, player_actions, created_with>>

NextEncounter ==
    \E cmd \in EncounterInputs, roll_p \in NominalRolls, roll_e \in RollPercents :
        steps < MaxRounds /\ Round(cmd, roll_p, roll_e)

SpecEncounter == InitEncounter /\ [][NextEncounter]_vars

\* C26 (as stated): in an encounter in which the player never selects
\* Self-Optimize and the boss never selects Regenerate, every round that does
\* not end in victory lowers the player's health by at least 9, and the
\* encounter is over (in_combat false) after at most 12 rounds.
C26_NineOffEveryRound ==
    /\ [][(steps' = steps + 1 /\ ~game_won') => health' <= health - 9]_vars
    /\ [](steps <= 12 /\ (steps = 12 => ~in_combat))

\* C26 (amended): in such an encounter every round that does not end in
\* victory lowers the player's health by at least 9, or to 0 when less than
\* 9 was left, and the encounter is over after at most 12 rounds.
C26_NineOffOrDown ==
    /\ [][(steps' = steps + 1 /\ ~game_won') =>
             /\ health' <= Max(0, health - 9)
             /\ health' < health]_vars
    /\ [](steps <= 12 /\ (steps = 12 => ~in_combat))
    /\ [](steps >= 0 => health <= Max(0, 100 - 9 * steps))

\* the twelfth round of an encounter without a heal has just ended it in
\* defeat, the boss still standing
C26_Witness ==
    /\ steps = 12
    /\ ~in_combat
    /\ ~running
    /\ health = 0
    /\ enemy_health > 0
    /\ response = Resp("SYSTEM FAILURE")

\* how often item i occurs in a list
Occurrences(list, i) == Cardinality({k \in 1..Len(list) : list[k] = i})

\* the places item i is in: rooms whose list holds it, and the inventory
RoomsHolding(i) == {r \in Rooms : i \in Range(room_items[r])}

\* C27: the take and drop commands conserve the items -- every item of the
\* world is in exactly one place, one room's list or the inventory, never
\* both and never neither; a successful take moves the item from the
\* current room to the inventory, a successful drop from the inventory to
\* the current room.
C27_ItemsConserved ==
    /\ [](\A i \in Items :
             /\ Occurrences(inventory, i)
                    + Cardinality(RoomsHolding(i)) = 1
             /\ \A r \in Rooms : Occurrences(room_items[r], i) <= 1)
    /\ [][\A cmd \in JourneyCommands :
             /\ (handle_take(cmd) /\ response'.kind \in
                     {"You take", "AI COMPONENT ACQUIRED, SYSTEM UPDATE",
                      "AI COMPONENT ACQUIRED"}) =>
                    \E i \in Items :
                        /\ i \in Range(room_items[current_room])
                        /\ i \notin Range(room_items'[current_room])
                        /\ inventory' = Append(inventory, i)
             /\ (handle_drop(cmd) /\ response'.kind = "You drop") =>
                    \E i \in Items :
                        /\ i \in Range(inventory)
                        /\ i \notin Range(inventory')
                        /\ room_items'[current_room] =
                               Append(room_items[current_room], i)]_vars

\* the debugger, taken in the lab, has just been dropped at the Corrupted
\* Gateway and lies there, and nowhere else
C27_Witness ==
    /\ response = Resp("You drop")
    /\ current_room = "virus_entrance"
    /\ RoomsHolding("debugger") = {"virus_entrance"}
    /\ "debugger" \notin Range(inventory)
    /\ "tokenizer" \in Range(inventory)

\* C28: unlocking is permanent -- a go through a locked exit made while the
\* required item is held removes the exit from the room's locked exits, no
\* lock ever comes back, every later go through an exit without a lock
\* succeeds whatever the inventory holds, and a refused attempt removes no
\* lock.
C28_UnlockPermanent ==
    [][ /\ locked_exits' \subseteq locked_exits
        /\ \A cmd \in JourneyCommands :
              (handle_go(cmd) /\ Parsed(cmd).args # <<>>) =>
                  LET direction == Parsed(cmd).args[1] IN
                  /\ (is_locked(direction) /\ holds_required(direction)) =>
                         /\ \A l \in locked_exits' :
                                ~(l[1] = current_room /\ l[2] = direction)
                         /\ current_room' = get_exit(current_room, direction)
                  /\ (~is_locked(direction)
                      /\ get_exit(current_room, direction) # None) =>
                         current_room' = get_exit(current_room, direction)
                  /\ current_room' = current_room =>
                         locked_exits' = locked_exits
      ]_vars

\* the player has just walked into the Virus Lair through the exit that was
\* locked, without the debugger, which lies where it was dropped
C28_Witness ==
    /\ current_room = "virus_lair"
    /\ response = Resp("room description")
    /\ locked_exits = {}
    /\ "debugger" \notin Range(inventory)
    /\ RoomsHolding("debugger") # {"finetuning_lab"}

\* the full direction names of the claim
DirectionNames ==
    {"north", "south", "east", "west", "up", "down",
     "northeast", "northwest", "southeast", "southwest"}

\* C29: a command that is one full direction name parses to go with that
\* direction at level 0 and at every level >= 2, and gives the failure
\* result at level 1.
C29_DirectionNameByLevel ==
    (/\ response.kind = "parse"
     /\ Len(response.original) = 1
     /\ response.original[1] \in DirectionNames) =>
        IF response.level = 1
        THEN Result = Failure
        ELSE Result = ParseResult("go", <<response.original[1]>>)

\* "north" has been parsed at level 1 and failed, though level 0 reads it
\* as go north
C29_Witness ==
    /\ response.kind = "parse"
    /\ response.level = 1
    /\ response.original = <<"north">>
    /\ Result = Failure
    /\ parse(0, <<"north">>) = ParseResult("go", <<"north">>)
    /\ parse(2, <<"north">>) = ParseResult("go", <<"north">>)

-----------------------------------------------------------------------------
\* At the lair: the dispatcher in the state it is in when a player who took
\* the tokenizer, the embedding layer, the training data and the quantum
\* debugger stands at the Corrupted Gateway, in front of the locked exit.
\* The player walks between the archives, the gateway, the lair and the
\* hall, attacks, and fights with the strongest action.

LairInventory == <<"tokenizer", "embedding", "training_data", "debugger">>

InitLair ==
    /\ running = TRUE
    /\ game_won = FALSE
    /\ in_combat = FALSE
    /\ combat = None
    /\ current_room = "virus_entrance"
    /\ inventory = LairInventory
    /\ ai_components_collected = <<"tokenizer", "embedding", "training_data">>
    /\ level = Len(ai_components_collected)
    /\ health = PlayerMaxHealth
    /\ room_items = [initial_room_items EXCEPT !["tokenizer_chamber"] = <<>>,
                                               !["embedding_space"] = <<>>,
                                               !["dark_archives"] = <<"codex">>,
                                               !["finetuning_lab"] = <<"fine_tuning">>]
    /\ locked_exits = initial_locked_exits
    /\ enemy_health = 0
    /\ phase = 1
    /\ turn = 0
    /\ player_actions = <<>>
    /\ created_with = <<>>
    /\ response = Resp("room description")
    /\ calls = <<>>
    /\ steps = 0
    /\ choice_from = NoChoice

LairCommands ==
    { <<"nw">>, <<"se">>, <<"n">>,
      <<"attack">>, <<"attack", "skoolach">>, <<"attack", "bug">>,
      <<"attack", "the", "skoolach", "virus">> }

\* the number typed during an encounter: Knowledge Beam
LairCombatInputs == { <<"4">> }

NextLair ==
    \/ \E cmd \in LairCommands : handle_go(cmd)
    \/ \E cmd \in LairCommands : handle_attack(cmd)
    \/ \E cmd \in LairCombatInputs, roll_p \in NominalRolls, roll_e \in NominalRolls :
          CombatTurn(cmd, roll_p, roll_e)

SpecLair == InitLair /\ [][NextLair]_vars

\* C30: with at least 3 components held, an attack whose target text
\* contains skoolach starts an encounter in any room; an attack with any
\* other non-empty target starts one only in the room whose name contains
\* virus (the Virus Lair) and otherwise answers that there is nothing to
\* attack, creating no encounter.  Every encounter started has a fresh boss
\* at health 150 in phase 1, and the player's health carries over.
C30_EncounterStart ==
    [][(~InCombat /\ running /\ Len(ai_components_collected) >= 3) =>
          \A cmd \in LairCommands :
              (handle_attack(cmd) /\ Parsed(cmd).args # <<>>) =>
                  IF "skoolach" \in Range(Parsed(cmd).args)
                     \/ current_room = "virus_lair"
                  THEN /\ in_combat' /\ combat' # None
                       /\ enemy_health' = 150
                       /\ phase' = 1
                       /\ health' = health
                       /\ current_room' = current_room
                  ELSE /\ response' = Resp("There's nothing to attack here.")
                       /\ UNCHANGED <<in_combat, combat, enemy_health, phase, health>>
      ]_vars

\* after a victory that cost health, a second encounter has just been
\* started away from the lair: fresh boss, the player's health as it was
C30_Witness ==
    /\ response = Resp("COMBAT INITIATED!")
    /\ in_combat
    /\ game_won
    /\ current_room = "dark_archives"
    /\ enemy_health = 150
    /\ phase = 1
    /\ health < 100
    /\ health > 0

=============================================================================
